---- MODULE Spec2Model ----
(***************************************************************************)
(* B+tree index of BusTub (b_plus_tree.cpp, b_plus_tree_leaf_page.cpp,     *)
(* b_plus_tree_internal_page.cpp) and its extendible hash table            *)
(* (extendible_hash_table.cpp).  Every public call is one action that runs *)
(* the whole handler; the reading thread of SpecSearch runs its calls step *)
(* by step.  A page is a record; its array_ is the pair of sequences       *)
(* keys/vals, slot i of the code being element i + 1 here, and GetSize()   *)
(* is the length of the sequences.                                         *)
(***************************************************************************)
EXTENDS Integers, Sequences, FiniteSets, TLC

\* ---------------------------------------------------------------- bounds
MaxKey == 5
MaxVal == 1
MaxPageId == 8
MaxLeafMaxSize == 3
MaxInternalMaxSize == 3
MaxOobMaxSize == 4
MaxOverwrites == 1
MaxCrabInternalMaxSize == 5
MaxWriterCalls == 3
MaxTableKey == 4
MaxTableVal == 2
MaxBucketSize == 2
MaxGlobalDepth == 3
MaxThreads == 2
MaxThreadCalls == 2
MaxThreadKey == 2
MaxLoadLeafMaxSize == 5
MaxLoadKey == 7
MaxLoadRemoves == 3

Keys == 1..MaxKey
\* The keys the caller draws from: one key fewer per extra leaf slot, which
\* keeps the trees of wide leaves as few as those of narrow ones.
KeysOf(leaf_max_size) == 1..(MaxKey + 2 - leaf_max_size)
Values == 1..MaxVal
LeafMaxSizes == 2..MaxLeafMaxSize
InternalMaxSizes == 3..MaxInternalMaxSize

INVALID_PAGE_ID == -1
HEADER_PAGE_ID == 0


VARIABLES pages, root_page_id_, next_page_id_, leaf_max_size_,
          internal_max_size_, status, live, last, obs, rd, header_page

\* The extendible hash table: dir_ maps a slot, counted from 0, to the
\* bucket object it points to; buckets holds the bucket objects that some
\* std::shared_ptr still owns, [depth_, list_] each; table_status tells
\* whether the last call returned; table_map is the key-to-value map the
\* calls so far describe and table_last the last call with its result.
VARIABLES dir_, global_depth_, bucket_size_, num_buckets_, buckets,
          table_status, table_map, table_last

\* load is the record of the calls of a loading workload (keys inserted in
\* ascending order, removed at either end); latch_ is the thread that holds
\* the hash table's mutex (0: nobody) and threads what each thread that
\* calls the hash table is doing.
VARIABLES load, latch_, threads

table == <<dir_, global_depth_, bucket_size_, num_buckets_, buckets,
           table_status, table_map, table_last>>

others == <<load, latch_, threads>>

tree == <<pages, root_page_id_, next_page_id_, leaf_max_size_,
          internal_max_size_, status, live, last, obs, rd, header_page>>

vars == <<tree, table, others>>

\* ------------------------------------------------------- sequence helpers
\* std::move / std::copy of trivially shaped ranges, on slots counted from 0.
InsertAt(s, i, x) == SubSeq(s, 1, i) \o <<x>> \o SubSeq(s, i + 1, Len(s))
RemoveAt(s, i) == SubSeq(s, 1, i) \o SubSeq(s, i + 2, Len(s))

Min(S) == CHOOSE x \in S : \A y \in S : x <= y
Max(S) == CHOOSE x \in S : \A y \in S : x >= y

\* ------------------------------------------------------------ page header
GetSize(p) == Len(p.keys)
IsLeafPage(p) == p.type = "LEAF"
IsRootPage(p) == p.parent = INVALID_PAGE_ID
GetMinSize(p) ==
  IF IsLeafPage(p) THEN p.max_size \div 2 ELSE (p.max_size + 1) \div 2

\* hdr records what a write below array_[0] left in the header: the key
\* whose bytes were copied there (0: none, keys are positive) and the header
\* fields those bytes spell.
LeafInit(parent_id, max_size) ==
  [type |-> "LEAF", keys |-> <<>>, vals |-> <<>>, parent |-> parent_id,
   next |-> INVALID_PAGE_ID, max_size |-> max_size,
   hdr |-> [key |-> 0, max_size |-> 0, parent |-> 0]]

InternalInit(parent_id, max_size) ==
  [type |-> "INTERNAL", keys |-> <<>>, vals |-> <<>>, parent |-> parent_id,
   next |-> INVALID_PAGE_ID, max_size |-> max_size,
   hdr |-> [key |-> 0, max_size |-> 0, parent |-> 0]]

\* -------------------------------------------------------------- leaf page
RECURSIVE KeyIndexLoop(_, _, _, _)
KeyIndexLoop(keys, key, left, right) ==
  IF left < right
  THEN LET mid == (right - left) \div 2 + left
       IN IF keys[mid + 1] > key
          THEN KeyIndexLoop(keys, key, left, mid - 1)
          ELSE KeyIndexLoop(keys, key, mid + 1, right)
  ELSE left

\* Largest slot whose key is <= key, -1 when every key is larger.
KeyIndex(p, key) ==
  LET left == KeyIndexLoop(p.keys, key, 0, GetSize(p) - 1)
  IN IF p.keys[left + 1] > key THEN left - 1 ELSE left

\* Lookup reads array_[idx] with no check of idx >= 0: for idx = -1 the
\* outcome is the out-of-bounds read oob.
LeafLookup(p, key, oob) ==
  LET idx == KeyIndex(p, key)
  IN IF idx = -1
     THEN [found |-> oob.eq, val |-> oob.val, oob |-> TRUE]
     ELSE IF idx < GetSize(p) /\ p.keys[idx + 1] = key
          THEN [found |-> TRUE, val |-> p.vals[idx + 1], oob |-> FALSE]
          ELSE [found |-> FALSE, val |-> 0, oob |-> FALSE]

LeafInsert(p, key, value) ==
  IF GetSize(p) = 0
  THEN [p EXCEPT !.keys = <<key>>, !.vals = <<value>>]
  ELSE LET idx == KeyIndex(p, key) + 1
       IN [p EXCEPT !.keys = InsertAt(p.keys, idx, key),
                    !.vals = InsertAt(p.vals, idx, value)]

\* MoveHalfTo that keeps max_size / 2 entries, rounding down.
LeafMoveHalfToLow(p, r, r_id) ==
  LET maxsize == p.max_size
      copy_idx == p.max_size \div 2
  IN <<[p EXCEPT !.keys = SubSeq(p.keys, 1, copy_idx),
                 !.vals = SubSeq(p.vals, 1, copy_idx),
                 !.next = r_id],
       [r EXCEPT !.keys = SubSeq(p.keys, copy_idx + 1, maxsize),
                 !.vals = SubSeq(p.vals, copy_idx + 1, maxsize),
                 !.next = p.next]>>

\* The pair <<donor, recipient>> after donor->MoveHalfTo(recipient).
LeafMoveHalfTo(p, r, r_id) ==
  LET maxsize == p.max_size
      copy_idx == (p.max_size + 1) \div 2
  IN <<[p EXCEPT !.keys = SubSeq(p.keys, 1, copy_idx),
                 !.vals = SubSeq(p.vals, 1, copy_idx),
                 !.next = r_id],
       [r EXCEPT !.keys = SubSeq(p.keys, copy_idx + 1, maxsize),
                 !.vals = SubSeq(p.vals, copy_idx + 1, maxsize),
                 !.next = p.next]>>

\* RemoveAndDeleteRecord: [page, corrupt].  For idx = -1 the code reads
\* array_[-1]; when that compares equal it moves slots [0, size) down by one,
\* slot 0 onto array_[-1], i.e. over the page header, and decrements the
\* size.  oob tells what the bytes of slot 0 spell as header fields; with
\* oob.lost they leave a page the tree cannot go on with.
RemoveAndDeleteRecord(p, key, oob) ==
  LET idx == KeyIndex(p, key)
  IN IF idx = -1
     THEN IF oob.eq
          THEN [page |-> [p EXCEPT !.keys = Tail(p.keys), !.vals = Tail(p.vals),
                                   !.max_size = oob.max_size,
                                   !.parent = oob.parent,
                                   !.hdr = [key |-> p.keys[1],
                                            max_size |-> oob.max_size,
                                            parent |-> oob.parent]],
                corrupt |-> oob.lost]
          ELSE [page |-> p, corrupt |-> FALSE]
     ELSE IF idx = GetSize(p) \/ p.keys[idx + 1] # key
          THEN [page |-> p, corrupt |-> FALSE]
          ELSE [page |-> [p EXCEPT !.keys = RemoveAt(p.keys, idx),
                                   !.vals = RemoveAt(p.vals, idx)],
                corrupt |-> FALSE]

LeafCopyNFrom(r, ks, vs) ==
  [r EXCEPT !.keys = r.keys \o ks, !.vals = r.vals \o vs]

\* MoveAllTo that leaves the recipient's next_page_id as it was.
LeafMoveAllToKeepNext(p, r) ==
  <<[p EXCEPT !.keys = <<>>, !.vals = <<>>],
    LeafCopyNFrom(r, p.keys, p.vals)>>

LeafMoveAllTo(p, r) ==
  <<[p EXCEPT !.keys = <<>>, !.vals = <<>>],
    [LeafCopyNFrom(r, p.keys, p.vals) EXCEPT !.next = p.next]>>

\* The recipient's array after the two std::move calls of MoveMiddleTo: its
\* old slots [0, n) are copied to [inc, inc + n) one by one in rising order
\* (std::pair is not trivially copyable), so slot j >= inc ends up with the
\* old slot j mod inc; then the donor's slots are written to [0, inc).
ShiftedIn(s, front) ==
  LET inc == Len(front)
  IN IF inc = 0 THEN s
     ELSE [j \in 1..(Len(s) + inc) |->
             IF j <= inc THEN front[j] ELSE s[((j - 1) % inc) + 1]]

LeafMoveMiddleTo(p, r) ==
  LET min == GetMinSize(p)
      size == GetSize(p)
  IN <<[p EXCEPT !.keys = SubSeq(p.keys, 1, min),
                 !.vals = SubSeq(p.vals, 1, min)],
       [r EXCEPT !.keys = ShiftedIn(r.keys, SubSeq(p.keys, min + 1, size)),
                 !.vals = ShiftedIn(r.vals, SubSeq(p.vals, min + 1, size))]>>

LeafMoveAheadTo(p, r) ==
  LET size == GetSize(p)
      increment == size - GetMinSize(p)
  IN <<[p EXCEPT !.keys = SubSeq(p.keys, increment + 1, size),
                 !.vals = SubSeq(p.vals, increment + 1, size)],
       LeafCopyNFrom(r, SubSeq(p.keys, 1, increment),
                        SubSeq(p.vals, 1, increment))>>

\* ---------------------------------------------------------- internal page
ValueIndex(p, value) ==
  IF \E i \in 1..GetSize(p) : p.vals[i] = value
  THEN Min({i \in 1..GetSize(p) : p.vals[i] = value}) - 1
  ELSE -1

\* std::lower_bound over slots [first, first + len): the first slot whose
\* key is not less than key, found by bisection.
RECURSIVE LowerBound(_, _, _, _)
LowerBound(keys, key, first, len) ==
  IF len > 0
  THEN LET half == len \div 2
           middle == first + half
       IN IF keys[middle + 1] < key
          THEN LowerBound(keys, key, middle + 1, len - half - 1)
          ELSE LowerBound(keys, key, first, half)
  ELSE first

InternalLookup(p, key) ==
  LET size == GetSize(p)
      target == LowerBound(p.keys, key, 1, size - 1)
  IN IF target = size THEN p.vals[size]
     ELSE IF p.keys[target + 1] <= key THEN p.vals[target + 1]
     ELSE p.vals[target]

\* A page from NewPage is zero-filled, so the unused key of slot 0 reads 0.
PopulateNewRoot(p, old_value, new_key, new_value) ==
  [p EXCEPT !.keys = <<0, new_key>>, !.vals = <<old_value, new_value>>]

InsertNodeAfter(p, old_value, new_key, new_value) ==
  LET new_value_idx == ValueIndex(p, old_value) + 1
  IN [p EXCEPT !.keys = InsertAt(p.keys, new_value_idx, new_key),
               !.vals = InsertAt(p.vals, new_value_idx, new_value)]

InternalRemove(p, index) ==
  [p EXCEPT !.keys = RemoveAt(p.keys, index), !.vals = RemoveAt(p.vals, index)]

SetKeyAt(p, index, key) == [p EXCEPT !.keys[index + 1] = key]

\* ------------------------------------------------------------ buffer pool
\* The machine state m threaded through one call: the pages of the buffer
\* pool, root_page_id_, the next page id NewPage hands out, the two size
\* parameters, the transaction's deleted page set and how the call ended
\* ("ok", "assert": an assertion failed, "corrupt": a page header was
\* overwritten).
Put(pgs, id, p) ==
  IF id \in DOMAIN pgs THEN [pgs EXCEPT ![id] = p] ELSE pgs @@ (id :> p)

Range(s) == {s[i] : i \in 1..Len(s)}

Abort(m) == [m EXCEPT !.status = "assert"]

\* FetchPage(id) gives a page the caller can use as an internal page; for
\* any other id the call goes on with bytes that are no internal page.
Fetchable(m, id) == id \in DOMAIN m.pages /\ ~IsLeafPage(m.pages[id])
Lost(m) == [m EXCEPT !.status = "corrupt"]

\* ------------------------------------------------ pins, latches, page set
\* m.pins[id]: FetchPage/NewPage calls of the running call on page id minus
\* its UnpinPage calls; m.latch[id]: the page latches it holds ("R", "W");
\* m.guard: its hold of root_page_id_latch_ ("none", "R", "W"); m.page_set:
\* the transaction's page set, 0 standing for the nullptr that names the
\* guard.  For the record of the call: m.wlatched, the pages it has write
\* latched; m.freed[id], page id as it was when its write latch was given
\* up; m.root_freed, <<root_page_id_>> as it was when the guard's write lock
\* was given up; m.unlocks, the unlocks of something not held; m.crab, the
\* pages write latched by the descent, in order.
Bump(f, id, d) ==
  IF id \in DOMAIN f THEN [f EXCEPT ![id] = @ + d] ELSE f @@ (id :> d)

FetchPage(m, id) == [m EXCEPT !.pins = Bump(@, id, 1)]
UnpinPage(m, id) == [m EXCEPT !.pins = Bump(@, id, -1)]

\* A thread that latches a page it has already latched never returns.
Hang(m) == [m EXCEPT !.status = "deadlock"]

WLatch(m, id) ==
  IF id \in DOMAIN m.latch THEN Hang(m)
  ELSE [m EXCEPT !.latch = @ @@ (id :> "W"), !.wlatched = @ \cup {id}]

RLatch(m, id) ==
  IF id \in DOMAIN m.latch THEN Hang(m)
  ELSE [m EXCEPT !.latch = @ @@ (id :> "R"), !.rlatched = @ \cup {id}]

\* WUnlatch / RUnlatch of a latch the thread holds in that mode; any other
\* unlock is recorded in m.unlocks.  m.given keeps, for the page, the pages
\* the thread had latched by then.
Unlatch(m, id, mode) ==
  IF id \in DOMAIN m.latch /\ m.latch[id] = mode
  THEN [m EXCEPT !.latch = [i \in (DOMAIN @) \ {id} |-> @[i]],
                 !.given = (id :> (m.wlatched \cup m.rlatched)) @@ @,
                 !.freed = IF mode = "W" /\ id \in DOMAIN m.pages
                           THEN (id :> m.pages[id]) @@ @ ELSE @]
  ELSE [m EXCEPT !.unlocks = @ \cup {id}]

GuardLock(m, mode) ==
  IF m.guard # "none" THEN Hang(m) ELSE [m EXCEPT !.guard = mode]

GuardUnlock(m, mode) ==
  IF m.guard = mode
  THEN [m EXCEPT !.guard = "none",
                 !.root_freed = IF mode = "W" THEN <<m.root>> ELSE @]
  ELSE [m EXCEPT !.unlocks = @ \cup {0}]

\* The header page keeps one record for the index name: has tells whether
\* it is there, root the root page id it holds.  InsertRecord does nothing
\* when the name has a record, UpdateRecord nothing when it has none.
NoRecord == [has |-> FALSE, root |-> INVALID_PAGE_ID]

InsertRecord(h, root_id) ==
  IF h.has THEN h ELSE [has |-> TRUE, root |-> root_id]

UpdateRecord(h, root_id) ==
  IF h.has THEN [h EXCEPT !.root = root_id] ELSE h

\* m.header_calls keeps the calls made on the header page: insert tells
\* InsertRecord from UpdateRecord, found whether the name had a record.
UpdateRootPageId(m, insert_record) ==
  UnpinPage(FetchPage(
    [m EXCEPT !.header = IF insert_record # 0 THEN InsertRecord(@, m.root)
                         ELSE UpdateRecord(@, m.root),
              !.header_calls = Append(@, [insert |-> insert_record # 0,
                                          found |-> m.header.has])],
    HEADER_PAGE_ID), HEADER_PAGE_ID)

AddIntoPageSet(m, id) == [m EXCEPT !.page_set = Append(@, id)]

\* ReleaseAllAncestor that forgets the UnpinPage of the pages it unlatches.
RECURSIVE ReleaseWithoutUnpin(_)
ReleaseWithoutUnpin(m) ==
  IF m.page_set = <<>> THEN m
  ELSE LET page == Head(m.page_set)
           m1 == [m EXCEPT !.page_set = Tail(@)]
       IN ReleaseWithoutUnpin(IF page = 0 THEN GuardUnlock(m1, "W")
                              ELSE Unlatch(m1, page, "W"))

\* ReleaseAllAncestor that skips the nullptr entry instead of unlocking the
\* guard.
RECURSIVE ReleaseWithoutGuard(_)
ReleaseWithoutGuard(m) ==
  IF m.page_set = <<>> THEN m
  ELSE LET page == Head(m.page_set)
           m1 == [m EXCEPT !.page_set = Tail(@)]
       IN ReleaseWithoutGuard(IF page = 0 THEN m1
                              ELSE UnpinPage(Unlatch(m1, page, "W"), page))

RECURSIVE ReleaseAllAncestor(_)
ReleaseAllAncestor(m) ==
  IF m.page_set = <<>> THEN m
  ELSE LET page == Head(m.page_set)
           m1 == [m EXCEPT !.page_set = Tail(@)]
       IN ReleaseAllAncestor(IF page = 0 THEN GuardUnlock(m1, "W")
                             ELSE UnpinPage(Unlatch(m1, page, "W"), page))

\* recipient r (page r_id) receives the items and becomes the parent of the
\* pages they point to.
InternalCopyNFrom(pgs, r_id, r, ks, vs) ==
  LET r2 == [r EXCEPT !.keys = r.keys \o ks, !.vals = r.vals \o vs]
      pgs2 == Put(pgs, r_id, r2)
  IN [i \in DOMAIN pgs2 |->
        IF i \in Range(vs) THEN [pgs2[i] EXCEPT !.parent = r_id] ELSE pgs2[i]]

\* node->MoveHalfTo(recipient): node is returned cut to its first min_size
\* slots, the pages function holds the recipient.
InternalMoveHalfTo(pgs, node, r_id, r) ==
  LET start_split_indx == GetMinSize(node)
      original_size == GetSize(node)
  IN [node |-> [node EXCEPT !.keys = SubSeq(node.keys, 1, start_split_indx),
                            !.vals = SubSeq(node.vals, 1, start_split_indx)],
      pages |-> InternalCopyNFrom(pgs, r_id, r,
                   SubSeq(node.keys, start_split_indx + 1, original_size),
                   SubSeq(node.vals, start_split_indx + 1, original_size))]

InternalMoveAllTo(pgs, node_id, r_id, middle_key) ==
  LET node == IF GetSize(pgs[node_id]) = 0 THEN pgs[node_id]
              ELSE SetKeyAt(pgs[node_id], 0, middle_key)
      pgs2 == InternalCopyNFrom(pgs, r_id, pgs[r_id], node.keys, node.vals)
  IN [pgs2 EXCEPT ![node_id].keys = <<>>, ![node_id].vals = <<>>]

InternalMoveMiddleTo(pgs, node_id, r_id, middle_key) ==
  LET node == pgs[node_id]
      r == IF GetSize(pgs[r_id]) = 0 THEN pgs[r_id]
           ELSE SetKeyAt(pgs[r_id], 0, middle_key)
      min == GetMinSize(node)
      size == GetSize(node)
      moved == {node.vals[i] : i \in (min + 1)..size}
      r2 == [r EXCEPT !.keys = ShiftedIn(r.keys, SubSeq(node.keys, min + 1, size)),
                      !.vals = ShiftedIn(r.vals, SubSeq(node.vals, min + 1, size))]
      node2 == [node EXCEPT !.keys = SubSeq(node.keys, 1, min),
                            !.vals = SubSeq(node.vals, 1, min)]
  IN [i \in DOMAIN pgs |->
        IF i = node_id THEN node2
        ELSE IF i = r_id THEN r2
        ELSE IF i \in moved THEN [pgs[i] EXCEPT !.parent = r_id]
        ELSE pgs[i]]

InternalMoveAheadTo(pgs, node_id, r_id, middle_key) ==
  LET node == pgs[node_id]
      r == IF GetSize(pgs[r_id]) = 0 THEN pgs[r_id]
           ELSE SetKeyAt(pgs[r_id], 0, middle_key)
      size == GetSize(node)
      increment == size - GetMinSize(node)
      pgs2 == InternalCopyNFrom(pgs, r_id, r, SubSeq(node.keys, 1, increment),
                                SubSeq(node.vals, 1, increment))
  IN [pgs2 EXCEPT ![node_id].keys = SubSeq(node.keys, increment + 1, size),
                  ![node_id].vals = SubSeq(node.vals, increment + 1, size)]

\* ---------------------------------------------------------------- descent
\* The page FindLeafPage returns, from page_id down; mode is "key",
\* "leftMost" or "rightMost".
RECURSIVE FindLeafPage(_, _, _, _)
FindLeafPage(pgs, page_id, key, mode) ==
  LET node == pgs[page_id]
  IN IF IsLeafPage(node) THEN page_id
     ELSE LET child_node_id ==
                IF mode = "leftMost" THEN node.vals[1]
                ELSE IF mode = "rightMost" THEN node.vals[GetSize(node)]
                ELSE InternalLookup(node, key)
          IN FindLeafPage(pgs, child_node_id, key, mode)

\* The tests under which FindLeafPage calls ReleaseAllAncestor, on the root
\* page and on a child page it has just write latched.
ReleasesAtRoot(node, operation) ==
  \/ operation = "DELETE" /\ GetSize(node) > 2
  \/ operation = "INSERT" /\ IsLeafPage(node)
       /\ GetSize(node) < node.max_size - 1
  \/ operation = "INSERT" /\ ~IsLeafPage(node)
       /\ GetSize(node) < node.max_size

\* ReleasesAtChild with the DELETE test off by one (>= for >).
ReleasesAtChildOrEqual(node, operation) ==
  \/ operation = "INSERT" /\ IsLeafPage(node)
       /\ GetSize(node) < node.max_size - 1
  \/ operation = "INSERT" /\ ~IsLeafPage(node)
       /\ GetSize(node) < node.max_size
  \/ operation = "DELETE" /\ GetSize(node) >= GetMinSize(node)

ReleasesAtChild(node, operation) ==
  \/ operation = "INSERT" /\ IsLeafPage(node)
       /\ GetSize(node) < node.max_size - 1
  \/ operation = "INSERT" /\ ~IsLeafPage(node)
       /\ GetSize(node) < node.max_size
  \/ operation = "DELETE" /\ GetSize(node) > GetMinSize(node)

\* The descent has write latched page id and calls ReleaseAllAncestor if
\* released: m.crab gets what the page looked like at that moment and what
\* the page set holds after it.
Crabbed(m, id, operation, released) ==
  [(IF released THEN ReleaseAllAncestor(m) ELSE m) EXCEPT !.crab = Append(@,
     [page |-> id, operation |-> operation, leaf |-> IsLeafPage(m.pages[id]),
      root |-> (m.crab = <<>>), size |-> GetSize(m.pages[id]),
      max_size |-> m.pages[id].max_size, min_size |-> GetMinSize(m.pages[id]),
      released |-> released,
      held |-> IF released THEN {} ELSE Range(m.page_set)])]

\* The descent goes from page_id to child_node_id.
Stepped(m, page_id, child_node_id) ==
  [m EXCEPT !.steps = @ \cup {<<page_id, child_node_id>>}]

\* EnterChild whose SEARCH gives up the page before it latches the child.
EnterChildReleaseFirst(m, page_id, child_node_id, operation) ==
  IF operation = "SEARCH"
  THEN RLatch(FetchPage(UnpinPage(Unlatch(Stepped(m, page_id, child_node_id),
                                          page_id, "R"), page_id),
                        child_node_id), child_node_id)
  ELSE Crabbed(AddIntoPageSet(WLatch(FetchPage(Stepped(m, page_id, child_node_id),
                                               child_node_id), child_node_id),
                              page_id),
               child_node_id, operation,
               ReleasesAtChild(m.pages[child_node_id], operation))

\* One turn of the while loop of FindLeafPage: the child is fetched and
\* latched, the page above it released (SEARCH) or put into the page set.
EnterChild(m, page_id, child_node_id, operation) ==
  IF operation = "SEARCH"
  THEN UnpinPage(Unlatch(RLatch(FetchPage(Stepped(m, page_id, child_node_id),
                                          child_node_id), child_node_id),
                         page_id, "R"), page_id)
  ELSE Crabbed(AddIntoPageSet(WLatch(FetchPage(Stepped(m, page_id, child_node_id),
                                               child_node_id), child_node_id),
                              page_id),
               child_node_id, operation,
               ReleasesAtChild(m.pages[child_node_id], operation))

\* The while loop of FindLeafPage from the latched page page_id down:
\* [m, leaf], leaf the id of the page it returns.
RECURSIVE Descend(_, _, _, _)
Descend(m, page_id, key, operation) ==
  IF IsLeafPage(m.pages[page_id]) \/ m.status # "ok"
  THEN [m |-> m, leaf |-> page_id]
  ELSE Descend(EnterChild(m, page_id, InternalLookup(m.pages[page_id], key),
                          operation),
               InternalLookup(m.pages[page_id], key), key, operation)

\* FindLeafPage(key, operation, transaction, false, false) with its latches
\* and pins; the caller has tested that the tree is not empty.
FindLeafPageFor(m, key, operation) ==
  IF operation = "SEARCH"
  THEN Descend(RLatch(GuardUnlock(FetchPage(m, m.root), "R"), m.root),
               m.root, key, operation)
  ELSE Descend(Crabbed(WLatch(FetchPage(m, m.root), m.root), m.root, operation,
                       ReleasesAtRoot(m.pages[m.root], operation)),
               m.root, key, operation)

\* The leaf's Lookup and RemoveAndDeleteRecord read array_[idx] for the idx
\* that KeyIndex returns: the machine keeps <<idx, size>> of every such read.
ReadSlot(f, key) ==
  [f EXCEPT !.m.slots = @ \cup {<<KeyIndex(f.m.pages[f.leaf], key),
                                  GetSize(f.m.pages[f.leaf])>>}]

\* ----------------------------------------------------------------- search
\* GetValue from the leaf f.leaf that FindLeafPage returned.
GetValueAtLeaf(f, r) ==
  [m |-> UnpinPage(Unlatch(f.m, f.leaf, "R"), f.leaf),
   ret |-> r.found,
   out |-> IF r.found THEN <<r.val>> ELSE <<>>]

GetValueFrom(f, key, oob) ==
  IF f.m.status # "ok" THEN [m |-> f.m, ret |-> FALSE, out |-> <<>>]
  ELSE IF GetSize(f.m.pages[f.leaf]) = 0
  THEN [m |-> Abort(f.m), ret |-> FALSE, out |-> <<>>]
  ELSE GetValueAtLeaf(ReadSlot(f, key), LeafLookup(f.m.pages[f.leaf], key, oob))

GetValue(m, key, oob) ==
  IF m.root = INVALID_PAGE_ID
  THEN [m |-> Abort(GuardLock(m, "R")), ret |-> FALSE, out |-> <<>>]
  ELSE GetValueFrom(FindLeafPageFor(GuardLock(m, "R"), key, "SEARCH"), key, oob)

\* -------------------------------------------------------------- insertion
\* StartNewTree without its UpdateRootPageId: the new leaf is never made the
\* root.
StartNewTreeNoRoot(m, key, value) ==
  LET id == m.next
  IN UnpinPage(FetchPage(
       [m EXCEPT !.next = id + 1,
                 !.pages = Put(@, id, LeafInsert(LeafInit(INVALID_PAGE_ID, m.lmax),
                                                 key, value))], id), id)

\* NewPage hands out the page pinned, which the model writes as FetchPage.
StartNewTree(m, key, value) ==
  LET id == m.next
  IN UpdateRootPageId(UnpinPage(FetchPage(
       [m EXCEPT !.next = id + 1, !.root = id,
                 !.pages = Put(@, id, LeafInsert(LeafInit(INVALID_PAGE_ID, m.lmax),
                                                 key, value))], id), id), 1)

\* The internal move primitives fetch each child they move, set its parent
\* id and unpin it at once, without latching it: the pins cancel inside the
\* primitive and are not counted.
\* The end of InsertIntoParent after its recursive call on the split parent.
InsertIntoParentDone(up, old_parent_id, new_page_id) ==
  IF up.status # "ok" THEN up
  ELSE UnpinPage(UnpinPage(up, old_parent_id), new_page_id)

RECURSIVE InsertIntoParent(_, _, _, _)
InsertIntoParent(m, old_id, key, new_id) ==
  LET old_node == m.pages[old_id]
  IN IF IsRootPage(old_node)
     THEN LET id == m.next
              new_root == PopulateNewRoot(InternalInit(INVALID_PAGE_ID, m.imax),
                                          old_id, key, new_id)
          IN ReleaseAllAncestor(UpdateRootPageId(UnpinPage(FetchPage(
               [m EXCEPT !.next = id + 1, !.root = id,
                         !.pages = Put([@ EXCEPT ![old_id].parent = id,
                                                 ![new_id].parent = id],
                                       id, new_root)], id), id), 0))
     ELSE LET old_parent_id == old_node.parent
              parent_page == m.pages[old_parent_id]
              m1 == FetchPage([m EXCEPT !.pages[new_id].parent = old_parent_id],
                              old_parent_id)
          IN IF ~Fetchable(m, old_parent_id) THEN Lost(m)
             ELSE IF GetSize(parent_page) < m.imax
             THEN UnpinPage(ReleaseAllAncestor(
                    [m1 EXCEPT !.pages[old_parent_id] =
                       InsertNodeAfter(parent_page, old_id, key, new_id)]),
                    old_parent_id)
             ELSE \* SplitInternal on the scratch copy, then memcpy back
                  LET copy_parent_node ==
                        InsertNodeAfter(parent_page, old_id, key, new_id)
                      new_page_id == m1.next
                      h == InternalMoveHalfTo(m1.pages, copy_parent_node,
                             new_page_id,
                             InternalInit(copy_parent_node.parent, m.imax))
                      new_key == h.pages[new_page_id].keys[1]
                      m2 == FetchPage(
                              [m1 EXCEPT !.next = new_page_id + 1,
                                         !.pages = Put(h.pages, old_parent_id, h.node)],
                              new_page_id)
                  IN InsertIntoParentDone(
                       InsertIntoParent(m2, old_parent_id, new_key, new_page_id),
                       old_parent_id, new_page_id)

SplitLeaf(m, leaf_id) ==
  LET node == m.pages[leaf_id]
      new_page_id == m.next
      h == LeafMoveHalfTo(node, LeafInit(node.parent, m.lmax), new_page_id)
  IN FetchPage([m EXCEPT !.next = new_page_id + 1,
                         !.pages = Put(Put(@, leaf_id, h[1]), new_page_id, h[2]),
                         !.split = <<[leaf |-> leaf_id, new |-> new_page_id,
                                      keys |-> node.keys, vals |-> node.vals,
                                      next |-> node.next]>>],
               new_page_id)

\* The end of InsertToLeaf after InsertIntoParent has returned up.
InsertToLeafDone(up, leaf_id, new_id) ==
  IF up.status # "ok" THEN up
  ELSE UnpinPage(UnpinPage(Unlatch(up, leaf_id, "W"), leaf_id), new_id)

\* InsertToLeaf after SplitLeaf has made page new_id.
InsertToLeafSplit(m, leaf_id, new_id) ==
  InsertToLeafDone(InsertIntoParent(m, leaf_id, m.pages[new_id].keys[1], new_id),
                   leaf_id, new_id)

\* InsertToLeaf after leaf_node->Insert.
InsertToLeafInserted(m, leaf_id) ==
  IF GetSize(m.pages[leaf_id]) < m.lmax
  THEN [m |-> UnpinPage(Unlatch(ReleaseAllAncestor(m), leaf_id, "W"), leaf_id),
        ret |-> TRUE]
  ELSE IF GetSize(m.pages[leaf_id]) # m.pages[leaf_id].max_size
  THEN [m |-> Abort(m), ret |-> FALSE]
  ELSE [m |-> InsertToLeafSplit(SplitLeaf(m, leaf_id), leaf_id, m.next),
        ret |-> TRUE]

\* InsertToLeaf from the leaf f.leaf that FindLeafPage returned.
InsertToLeafAt(f, key, value, oob) ==
  IF f.m.status # "ok" THEN [m |-> f.m, ret |-> FALSE]
  ELSE IF GetSize(f.m.pages[f.leaf]) = 0 THEN [m |-> Abort(f.m), ret |-> FALSE]
  ELSE IF LeafLookup(f.m.pages[f.leaf], key, oob).found
  THEN [m |-> UnpinPage(Unlatch(ReleaseAllAncestor(ReadSlot(f, key).m), f.leaf, "W"),
                        f.leaf),
        ret |-> FALSE]
  ELSE InsertToLeafInserted(
         [ReadSlot(f, key).m EXCEPT !.pages[f.leaf] = LeafInsert(@, key, value)],
         f.leaf)

InsertToLeaf(m, key, value, oob) ==
  InsertToLeafAt(FindLeafPageFor(m, key, "INSERT"), key, value, oob)

Insert(m, key, value, oob) ==
  IF m.root = INVALID_PAGE_ID
  THEN [m |-> ReleaseAllAncestor(
                StartNewTree(AddIntoPageSet(GuardLock(m, "W"), 0), key, value)),
        ret |-> TRUE]
  ELSE InsertToLeaf(AddIntoPageSet(GuardLock(m, "W"), 0), key, value, oob)

\* ---------------------------------------------------------------- removal
\* The record of a call of Redistribute: its arguments and the two pages'
\* entries when it was called.
Redistributed(m, neighbor_id, node_id, parent_id, index, from_prev) ==
  <<[neighbor |-> neighbor_id, node |-> node_id, parent |-> parent_id,
     index |-> index, from_prev |-> from_prev,
     neighbor_keys |-> m.pages[neighbor_id].keys,
     neighbor_vals |-> m.pages[neighbor_id].vals,
     node_keys |-> m.pages[node_id].keys,
     node_vals |-> m.pages[node_id].vals,
     min_size |-> GetMinSize(m.pages[neighbor_id])]>>

\* Redistribute: the from_prev branch is not closed by an else, so
\* MoveAheadTo and the second SetKeyAt run in both cases.
Redistribute(m, neighbor_id, node_id, parent_id, index, from_prev) ==
  IF IsLeafPage(m.pages[node_id])
  THEN LET a == IF from_prev
                THEN LET h == LeafMoveMiddleTo(m.pages[neighbor_id], m.pages[node_id])
                     IN [m.pages EXCEPT ![neighbor_id] = h[1], ![node_id] = h[2],
                                        ![parent_id] = SetKeyAt(@, index, h[2].keys[1])]
                ELSE m.pages
           g == LeafMoveAheadTo(a[neighbor_id], a[node_id])
           \* KeyAt(0) of the sibling; a sibling left empty still holds its
           \* old first key in array_[0]
           key0 == IF GetSize(g[1]) > 0 THEN g[1].keys[1]
                   ELSE m.pages[neighbor_id].keys[1]
       IN [m EXCEPT !.pages = [a EXCEPT ![neighbor_id] = g[1], ![node_id] = g[2],
                                        ![parent_id] = SetKeyAt(@, index, key0)],
                    !.redis = Redistributed(m, neighbor_id, node_id, parent_id,
                                            index, from_prev)]
  ELSE LET a == IF from_prev
                THEN LET b == InternalMoveMiddleTo(m.pages, neighbor_id, node_id,
                                                   m.pages[parent_id].keys[index + 1])
                     IN [b EXCEPT ![parent_id] = SetKeyAt(@, index, b[node_id].keys[1])]
                ELSE m.pages
           c == InternalMoveAheadTo(a, neighbor_id, node_id, a[parent_id].keys[index + 1])
       IN [m EXCEPT !.pages = [c EXCEPT ![parent_id] =
                                 SetKeyAt(@, index, c[neighbor_id].keys[1])],
                    !.redis = Redistributed(m, neighbor_id, node_id, parent_id,
                                            index, from_prev)]

RECURSIVE CoalesceOrRedistribute(_, _)
RECURSIVE Coalesce(_, _, _, _, _)

\* Both return [m, ret], ret being the bool of the code.
Coalesce(m, neighbor_id, node_id, parent_id, index) ==
  LET middle_key == m.pages[parent_id].keys[index + 1]
      moved == IF IsLeafPage(m.pages[node_id])
               THEN LET h == LeafMoveAllTo(m.pages[node_id], m.pages[neighbor_id])
                    IN [m.pages EXCEPT ![node_id] = h[1], ![neighbor_id] = h[2]]
               ELSE InternalMoveAllTo(m.pages, node_id, neighbor_id, middle_key)
      m1 == [m EXCEPT !.pages = [moved EXCEPT ![parent_id] = InternalRemove(@, index)],
                      !.merged = IF IsLeafPage(m.pages[node_id]) THEN @ \cup {node_id}
                                 ELSE @]
  IN CoalesceOrRedistribute(m1, parent_id)

\* The end of CoalesceOrRedistribute after Redistribute with the sibling
\* sibling_id.
RedistributeDone(m, parent_id, sibling_id) ==
  [m |-> UnpinPage(Unlatch(UnpinPage(ReleaseAllAncestor(m), parent_id),
                           sibling_id, "W"), sibling_id),
   ret |-> FALSE]

\* The end of CoalesceOrRedistribute after Coalesce has returned c; ret is
\* what it returns itself.
CoalesceDone(c, parent_id, sibling_id, ret) ==
  [m |-> IF c.m.status # "ok" THEN c.m
         ELSE UnpinPage(Unlatch(UnpinPage(
                IF c.ret THEN [c.m EXCEPT !.deleted = @ \cup {parent_id}]
                ELSE c.m, parent_id), sibling_id, "W"), sibling_id),
   ret |-> ret]

\* CoalesceOrRedistribute with the left sibling fetched and latched.
WithLeftSibling(m, node_id, parent_id, idx, left_id) ==
  IF m.status # "ok" THEN [m |-> m, ret |-> FALSE]
  ELSE IF GetSize(m.pages[left_id]) > GetMinSize(m.pages[left_id])
  THEN RedistributeDone(Redistribute(m, left_id, node_id, parent_id, idx, TRUE),
                        parent_id, left_id)
  ELSE IF GetSize(m.pages[left_id]) # GetMinSize(m.pages[left_id])
  THEN [m |-> Abort(m), ret |-> FALSE]
  ELSE CoalesceDone(Coalesce(m, left_id, node_id, parent_id, idx),
                    parent_id, left_id, TRUE)

\* CoalesceOrRedistribute with the right sibling fetched and latched.
WithRightSibling(m, node_id, parent_id, idx, right_id) ==
  IF m.status # "ok" THEN [m |-> m, ret |-> FALSE]
  ELSE IF GetSize(m.pages[right_id]) > GetMinSize(m.pages[right_id])
  THEN RedistributeDone(Redistribute(m, right_id, node_id, parent_id, idx + 1, FALSE),
                        parent_id, right_id)
  ELSE IF GetSize(m.pages[right_id]) # GetMinSize(m.pages[right_id])
  THEN [m |-> Abort(m), ret |-> FALSE]
  ELSE CoalesceDone(Coalesce([m EXCEPT !.deleted = @ \cup {right_id}],
                             node_id, right_id, parent_id, idx + 1),
                    parent_id, right_id, FALSE)

CoalesceOrRedistribute(m, node_id) ==
  LET node == m.pages[node_id]
  IN IF IsRootPage(node)
     THEN IF ~IsLeafPage(node) /\ GetSize(node) <= 1
          THEN LET only_child == node.vals[1]
               IN [m |-> ReleaseAllAncestor(UnpinPage(UpdateRootPageId(
                           [FetchPage(m, only_child)
                              EXCEPT !.pages[only_child].parent = INVALID_PAGE_ID,
                                     !.root = only_child], 0),
                           only_child)),
                   ret |-> TRUE]
          ELSE IF IsLeafPage(node) /\ GetSize(node) = 0
          THEN [m |-> ReleaseAllAncestor(UpdateRootPageId(
                        [m EXCEPT !.root = INVALID_PAGE_ID], 0)),
                ret |-> TRUE]
          ELSE [m |-> ReleaseAllAncestor(m), ret |-> FALSE]
     ELSE IF GetSize(node) >= GetMinSize(node)
     THEN [m |-> ReleaseAllAncestor(m), ret |-> FALSE]
     ELSE
       LET parent_id == node.parent
           parent_page == m.pages[parent_id]
           idx == ValueIndex(parent_page, node_id)
       IN IF ~Fetchable(m, parent_id) THEN [m |-> Lost(m), ret |-> FALSE]
          ELSE IF ~(idx < GetSize(parent_page) /\ idx >= 0) \/ ~(GetSize(parent_page) >= 2)
          THEN [m |-> Abort(FetchPage(m, parent_id)), ret |-> FALSE]
          ELSE IF idx > 0
          THEN WithLeftSibling(
                 WLatch(FetchPage(FetchPage(m, parent_id), parent_page.vals[idx]),
                        parent_page.vals[idx]),
                 node_id, parent_id, idx, parent_page.vals[idx])
          ELSE WithRightSibling(
                 WLatch(FetchPage(FetchPage(m, parent_id), parent_page.vals[idx + 2]),
                        parent_page.vals[idx + 2]),
                 node_id, parent_id, idx, parent_page.vals[idx + 2])

\* DeletePage for every id of the deleted page set, then clear(); the
\* buffer pool does not delete a page that another thread has pinned.
DeletePages(m) ==
  [m EXCEPT !.pages = [i \in (DOMAIN m.pages) \ (m.deleted \ m.pinned) |->
                         m.pages[i]],
            !.deleted = {}]

\* The end of Remove after CoalesceOrRedistribute has returned c.
RemoveDone(c, leaf_id) ==
  IF c.m.status # "ok" THEN c.m
  ELSE DeletePages(UnpinPage(Unlatch(
         IF c.ret THEN [c.m EXCEPT !.deleted = @ \cup {leaf_id}] ELSE c.m,
         leaf_id, "W"), leaf_id))

\* Remove after the record is gone from the leaf: when the leaf is not the
\* root and lost its first key, the separator of its slot in the parent is
\* set to the leaf's KeyAt(0) (key0); the parent is fetched and written
\* with no latch taken.
SetParentSeparator(m, leaf_id, isfirst, key0) ==
  LET deleaf == m.pages[leaf_id]
      idx == ValueIndex(m.pages[deleaf.parent], leaf_id)
  IN IF IsRootPage(deleaf) \/ ~isfirst THEN m
     ELSE IF ~Fetchable(m, deleaf.parent) THEN Lost(m)
     ELSE IF idx = 0 THEN UnpinPage(FetchPage(m, deleaf.parent), deleaf.parent)
     ELSE IF idx = -1 THEN Lost(m)
     ELSE UnpinPage(FetchPage(
            [m EXCEPT !.pages[deleaf.parent] = SetKeyAt(@, idx, key0)],
            deleaf.parent), deleaf.parent)

\* Remove after CoalesceOrRedistribute's caller has written the separator.
RemoveRebalance(m, leaf_id) ==
  IF m.status # "ok" THEN m
  ELSE RemoveDone(CoalesceOrRedistribute(m, leaf_id), leaf_id)

\* Remove after RemoveAndDeleteRecord has returned r on the leaf of machine
\* m; an emptied leaf still holds the removed key in array_[0].
RemoveRecorded(m, leaf_id, key, r) ==
  LET deleaf == m.pages[leaf_id]
  IN IF r.corrupt THEN Lost([m EXCEPT !.pages[leaf_id] = r.page])
     ELSE IF GetSize(deleaf) = GetSize(r.page)
     THEN UnpinPage(Unlatch(ReleaseAllAncestor(m), leaf_id, "W"), leaf_id)
     ELSE RemoveRebalance(
            SetParentSeparator([m EXCEPT !.pages[leaf_id] = r.page], leaf_id,
                               deleaf.keys[1] = key,
                               IF GetSize(r.page) = 0 THEN key ELSE r.page.keys[1]),
            leaf_id)

\* Remove from the leaf f.leaf that FindLeafPage returned.
RemoveFrom(f, key, oob) ==
  IF f.m.status # "ok" THEN f.m
  ELSE IF GetSize(f.m.pages[f.leaf]) = 0 THEN Abort(f.m)
  ELSE RemoveRecorded(ReadSlot(f, key).m, f.leaf, key,
                      RemoveAndDeleteRecord(f.m.pages[f.leaf], key, oob))

Remove(m, key, oob) ==
  IF m.root = INVALID_PAGE_ID
  THEN ReleaseAllAncestor(AddIntoPageSet(GuardLock(m, "W"), 0))
  ELSE RemoveFrom(FindLeafPageFor(AddIntoPageSet(GuardLock(m, "W"), 0), key, "DELETE"),
                  key, oob)

\* --------------------------------------------------------------- iterator
\* Begin() = (leftmost leaf, 0), End() = (rightmost leaf, size); the cursor
\* is <<page id, slot>>, <<INVALID_PAGE_ID, 0>> for the null iterator.
Begin(m) ==
  IF m.root = INVALID_PAGE_ID THEN <<INVALID_PAGE_ID, 0>>
  ELSE <<FindLeafPage(m.pages, m.root, 0, "leftMost"), 0>>

End(m) ==
  IF m.root = INVALID_PAGE_ID THEN <<INVALID_PAGE_ID, 0>>
  ELSE LET id == FindLeafPage(m.pages, m.root, 0, "rightMost")
       IN <<id, GetSize(m.pages[id])>>

\* The keys read by advancing the cursor cur until it equals end or runs off
\* the leaf chain; fuel bounds the walk.
RECURSIVE Collect(_, _, _, _)
Collect(pgs, cur, end, fuel) ==
  IF cur = end \/ cur[1] = INVALID_PAGE_ID \/ cur[1] \notin DOMAIN pgs \/ fuel = 0
  THEN <<>>
  ELSE LET page == pgs[cur[1]]
       IN IF cur[2] < GetSize(page)
          THEN <<page.keys[cur[2] + 1]>> \o
               Collect(pgs, IF cur[2] + 1 < GetSize(page) \/ page.next = INVALID_PAGE_ID
                            THEN <<cur[1], cur[2] + 1>>
                            ELSE <<page.next, 0>>, end, fuel - 1)
          ELSE IF page.next = INVALID_PAGE_ID THEN <<>>
          ELSE Collect(pgs, <<page.next, 0>>, end, fuel - 1)

\* ------------------------------------------------------------ the machine
Machine ==
  [pages |-> pages, root |-> root_page_id_, next |-> next_page_id_,
   lmax |-> leaf_max_size_, imax |-> internal_max_size_, deleted |-> {},
   status |-> status,
   pins |-> <<>>, latch |-> <<>>, guard |-> "none", page_set |-> <<>>,
   wlatched |-> {}, freed |-> <<>>, root_freed |-> <<>>, unlocks |-> {},
   crab |-> <<>>, pinned |-> rd.pinned,
   rlatched |-> {}, given |-> <<>>, steps |-> {},
   header |-> header_page, header_calls |-> <<>>,
   slots |-> {}, redis |-> <<>>, split |-> <<>>, merged |-> {}]

\* The header of leaf p still holds the bytes of the key p.hdr.key.
HeaderSpells(p) ==
  p.hdr.key # 0 /\ p.hdr.max_size = p.max_size /\ p.hdr.parent = p.parent

\* What the comparison of array_[-1].first with key can give: the header
\* bytes (max_size, parent_page_id) taken as a key are whatever key the
\* caller happens to search for, unless a key's bytes were copied there.
OobEquals(p, key) ==
  IF HeaderSpells(p) THEN {p.hdr.key = key} ELSE BOOLEAN

\* The header fields the bytes of slot 0 can spell.  The search key equalled
\* the old (parent_page_id, max_size) and slot 0's key is larger, so the new
\* pair is larger; the caller chooses the key bytes, the model keeps the
\* choices whose parent is a page the tree can fetch as an internal page
\* and whose max_size is not smaller than before, in at most MaxOverwrites
\* pages at a time.
HeaderSpellings(pgs, p) ==
  IF Cardinality({i \in DOMAIN pgs : pgs[i].hdr.key # 0}) >= MaxOverwrites
  THEN {}
  ELSE {h \in [max_size : p.max_size..MaxOobMaxSize,
               parent : {p.parent} \cup {i \in DOMAIN pgs : ~IsLeafPage(pgs[i])}] :
          \/ h.parent > p.parent
          \/ h.parent = p.parent /\ h.max_size > p.max_size}

NoOob == [eq |-> FALSE, val |-> 1, lost |-> FALSE, max_size |-> 0, parent |-> 0]

\* The outcomes of the call's access to array_[-1], which happens when the
\* leaf the key is routed to holds only larger keys; write tells whether the
\* call is the one that moves the slots down on an equal comparison.  When
\* there is no such access there is nothing to choose (one fixed element,
\* never looked at).
OobOutcomes(m, key, write) ==
  IF m.root = INVALID_PAGE_ID THEN {NoOob}
  ELSE LET leaf == m.pages[FindLeafPage(m.pages, m.root, key, "key")]
       IN IF GetSize(leaf) > 0 /\ KeyIndex(leaf, key) = -1
          THEN {NoOob : e \in OobEquals(leaf, key) \ {TRUE}}
               \cup (IF TRUE \notin OobEquals(leaf, key) THEN {}
                     ELSE IF ~write
                     THEN {[NoOob EXCEPT !.eq = TRUE, !.val = v] : v \in Values}
                     ELSE {[NoOob EXCEPT !.eq = TRUE, !.lost = TRUE]}
                          \cup {[NoOob EXCEPT !.eq = TRUE,
                                              !.max_size = h.max_size,
                                              !.parent = h.parent] :
                                  h \in HeaderSpellings(m.pages, leaf)})
          ELSE {NoOob}

\* NewPage has a page to give as long as the ids handed out stay in
\* 1..MaxPageId; m is the machine after the call.
RoomForInsert(m) == m.next <= MaxPageId + 1

\* What the call that ran machine m from the current state leaves behind in
\* the calling thread and the buffer pool: pins, the pages whose pin count
\* differs from before the call; latch, guard, page_set, what the thread
\* still holds; unlocks, its unlocks of something it did not hold;
\* unlatched, the pages of before the call that it changed without having
\* write latched them or after giving the write latch up; root_unguarded,
\* whether root_page_id_ changed after the guard's write lock was given up;
\* crab, the record of the descent; steps, the parent and child of every
\* step of the descent; early, the steps whose parent was unlatched when the
\* child had not been latched yet; header_calls, the calls on the header
\* page; slots, redis, split, merged, the leaf slots read, the
\* redistribution, the leaf split and the leaves coalesced.
Observe(m) ==
  [pins |-> {id \in DOMAIN m.pins \cap DOMAIN m.pages : m.pins[id] # 0},
   latch |-> DOMAIN m.latch,
   guard |-> m.guard,
   page_set |-> m.page_set,
   unlocks |-> m.unlocks,
   unlatched |-> {id \in DOMAIN pages \cap DOMAIN m.pages :
                    /\ m.pages[id] # pages[id]
                    /\ \/ id \notin m.wlatched
                       \/ /\ id \notin DOMAIN m.latch
                          /\ id \in DOMAIN m.freed
                          /\ m.freed[id] # m.pages[id]},
   root_unguarded |-> /\ m.root # root_page_id_
                      /\ m.guard # "W"
                      /\ (m.root_freed = <<>> \/ m.root_freed[1] # m.root),
   crab |-> m.crab,
   steps |-> m.steps,
   early |-> {s \in m.steps : /\ s[1] \in DOMAIN m.given
                               /\ s[2] \notin m.given[s[1]]},
   header_calls |-> m.header_calls,
   slots |-> m.slots, redis |-> m.redis, split |-> m.split, merged |-> m.merged]

\* Nothing held, nothing changed.
Quiet ==
  [pins |-> {}, latch |-> {}, guard |-> "none", page_set |-> <<>>,
   unlocks |-> {}, unlatched |-> {}, root_unguarded |-> FALSE, crab |-> <<>>,
   steps |-> {}, early |-> {}, header_calls |-> <<>>,
   slots |-> {}, redis |-> <<>>, split |-> <<>>, merged |-> {}]

Commit(m) ==
  /\ pages' = m.pages
  /\ root_page_id_' = m.root
  /\ next_page_id_' = m.next
  /\ status' = m.status
  /\ obs' = Observe(m)
  /\ header_page' = m.header
  /\ UNCHANGED <<leaf_max_size_, internal_max_size_, table, latch_, threads>>

\* The second thread, which only reads, is in no call: pc is its place in
\* the running call, page the page it fetched as the root (0: none), guard
\* its hold of root_page_id_latch_, latch and pinned the pages it has read
\* latched and pinned, bare whether its last step read root_page_id_ while
\* it did not hold the guard, calls the calls of the first thread so far,
\* always / never whether the key has been stored with value val / has been
\* absent at every moment of the running call, ret and out its result.
Away ==
  [pc |-> "away", op |-> "none", key |-> 0, page |-> 0, guard |-> "none",
   latch |-> {}, pinned |-> {}, bare |-> FALSE, calls |-> 0,
   always |-> FALSE, never |-> FALSE, val |-> 0, ret |-> FALSE, out |-> <<>>]

\* No call of the loading workload yet: inserted counts the keys inserted
\* (1, 2, ... in this order), removed lists the keys removed, mixed tells
\* whether a key was inserted after one was removed, high is the height of
\* the tree after the last Insert and merged whether a leaf was coalesced.
NoLoad == [inserted |-> 0, removed |-> <<>>, mixed |-> FALSE, high |-> 0,
           merged |-> FALSE]

\* No call is outstanding: the caller has taken the result of its last call.
Idle == [op |-> "none", key |-> 0, val |-> 0, ret |-> FALSE, out |-> <<>>]

\* ------------------------------------------- extendible hash table
\* A table t is [dir_, global_depth_, bucket_size_, num_buckets_, buckets,
\* status] as threaded through one call; status "bad_alloc" is a call ended
\* by std::bad_alloc, which the table's code never catches.
TableKeys == 0..MaxTableKey
TableValues == 1..MaxTableVal
BucketSizes == 1..MaxBucketSize

\* std::hash<int>()(key) of the standard library is the key itself.
Hash(key) == key

\* hash & ((1 << depth) - 1) and (hash & (1 << depth)) != 0.
LowBits(x, depth) == x % (2 ^ depth)
BitSet(x, depth) == (x \div (2 ^ depth)) % 2 = 1

NewBucket(depth) == [depth_ |-> depth, list_ |-> <<>>]

IndexOf(t, key) == LowBits(Hash(key), t.global_depth_)

IsFull(t, b) == Len(b.list_) = t.bucket_size_

\* The position in list_ of the first item with the key, 0 if none.
RECURSIVE PositionOf(_, _, _)
PositionOf(list, key, i) ==
  IF i > Len(list) THEN 0
  ELSE IF list[i][1] = key THEN i ELSE PositionOf(list, key, i + 1)

BucketFind(b, key) ==
  IF PositionOf(b.list_, key, 1) = 0 THEN [ret |-> FALSE, out |-> <<>>]
  ELSE [ret |-> TRUE, out |-> <<b.list_[PositionOf(b.list_, key, 1)][2]>>]

\* Bucket::Remove that reports the key without taking it out of list_.
BucketRemoveKeep(b, key) ==
  [b |-> b, ret |-> PositionOf(b.list_, key, 1) # 0]

\* list_.remove(item) takes out every pair equal to the first one with the
\* key; std::any_of stops at that pair.
BucketRemove(b, key) ==
  IF PositionOf(b.list_, key, 1) = 0 THEN [b |-> b, ret |-> FALSE]
  ELSE [b |-> [b EXCEPT !.list_ =
                 SelectSeq(@, LAMBDA it :
                                it # b.list_[PositionOf(b.list_, key, 1)])],
        ret |-> TRUE]

BucketInsert(t, b, key, value) ==
  IF PositionOf(b.list_, key, 1) # 0
  THEN [b |-> [b EXCEPT !.list_[PositionOf(b.list_, key, 1)] = <<key, value>>],
        ret |-> TRUE]
  ELSE IF ~IsFull(t, b)
       THEN [b |-> [b EXCEPT !.list_ = Append(@, <<key, value>>)],
             ret |-> TRUE]
       ELSE [b |-> b, ret |-> FALSE]

\* The doubling of dir_ that leaves global_depth_ as it was.
GrowKeepDepth(t, capacity) ==
  [t EXCEPT !.dir_ = [i \in 0..(2 * capacity - 1) |-> t.dir_[i % capacity]]]

\* global_depth_++ and the doubling of dir_, capacity slots long, with the
\* copy of its lower half into the upper one.
Grow(t, capacity) ==
  [t EXCEPT !.global_depth_ = @ + 1,
            !.dir_ = [i \in 0..(2 * capacity - 1) |-> t.dir_[i % capacity]]]

\* The loop over target_bucket->GetItems() with the test turned round.
RECURSIVE MoveItemsSwapped(_, _, _, _)
MoveItemsSwapped(t, list, mask_bit, bb) ==
  IF list = <<>> THEN bb
  ELSE MoveItemsSwapped(t, Tail(list), mask_bit,
         IF ~BitSet(Hash(Head(list)[1]), mask_bit)
         THEN <<bb[1], BucketInsert(t, bb[2], Head(list)[1], Head(list)[2]).b>>
         ELSE <<BucketInsert(t, bb[1], Head(list)[1], Head(list)[2]).b, bb[2]>>)

\* The loop over target_bucket->GetItems(): bb is <<bucket_0, bucket_1>>,
\* mask_bit the depth of the target, mask being 1 << mask_bit.
RECURSIVE MoveItems(_, _, _, _)
MoveItems(t, list, mask_bit, bb) ==
  IF list = <<>> THEN bb
  ELSE MoveItems(t, Tail(list), mask_bit,
         IF BitSet(Hash(Head(list)[1]), mask_bit)
         THEN <<bb[1], BucketInsert(t, bb[2], Head(list)[1], Head(list)[2]).b>>
         ELSE <<BucketInsert(t, bb[1], Head(list)[1], Head(list)[2]).b, bb[2]>>)

\* num_buckets_++ that counts both new buckets.
CountSplitTwice(t) == [t EXCEPT !.num_buckets_ = @ + 2]

\* The split that forgets num_buckets_++.
CountSplitNever(t) == t

CountSplit(t) == [t EXCEPT !.num_buckets_ = @ + 1]

\* The loop over dir_ that tests the lowest bit of the slot instead of mask.
RepointByLowBit(t, target, mask_bit, id0, id1) ==
  [t EXCEPT !.dir_ = [i \in DOMAIN t.dir_ |->
                        IF t.dir_[i] = target
                        THEN IF BitSet(i, 0) THEN id1 ELSE id0
                        ELSE t.dir_[i]]]

\* The loop over dir_: every slot that points to the target gets bucket_1
\* (id1) or bucket_0 (id0).
Repoint(t, target, mask_bit, id0, id1) ==
  [t EXCEPT !.dir_ = [i \in DOMAIN t.dir_ |->
                        IF t.dir_[i] = target
                        THEN IF BitSet(i, mask_bit) THEN id1 ELSE id0
                        ELSE t.dir_[i]]]

\* The bucket objects a std::shared_ptr of dir_ still owns.
Owned(t) ==
  [t EXCEPT !.buckets = [id \in {t.dir_[i] : i \in DOMAIN t.dir_} |-> @[id]]]

\* The smallest name no bucket object of ids bears.
FreshId(ids) == Min({i \in 1..(Cardinality(ids) + 1) : i \notin ids})

\* The body of the while loop after the doubling: two new buckets, the items
\* moved, the count, the slots; the target is freed with its last owner.
Rehashed(t, target, id0, id1, bb) ==
  Owned(Repoint(CountSplit([t EXCEPT !.buckets = (id0 :> bb[1]) @@
                                                  (id1 :> bb[2]) @@ @]),
                target, t.buckets[target].depth_, id0, id1))

Rehash(t, target) ==
  Rehashed(t, target, FreshId(DOMAIN t.buckets),
           FreshId(DOMAIN t.buckets \cup {FreshId(DOMAIN t.buckets)}),
           MoveItems(t, t.buckets[target].list_, t.buckets[target].depth_,
                     <<NewBucket(t.buckets[target].depth_ + 1),
                       NewBucket(t.buckets[target].depth_ + 1)>>))

\* One turn of the while loop of Insert on the full bucket target.  A table
\* with a bucket deeper than MaxGlobalDepth does not fit in memory: the
\* turn that would make one ends in std::bad_alloc, thrown by dir_.resize
\* after global_depth_++.
SplitBucket(t, target) ==
  IF t.buckets[target].depth_ >= MaxGlobalDepth
  THEN [t EXCEPT !.status = "bad_alloc",
                 !.global_depth_ =
                    IF t.buckets[target].depth_ = @ THEN @ + 1 ELSE @]
  ELSE IF t.buckets[target].depth_ = t.global_depth_
       THEN Rehash(Grow(t, Cardinality(DOMAIN t.dir_)), target)
       ELSE Rehash(t, target)

\* Insert that splits a full bucket once (if for while).
SplitOnce(t, key) ==
  IF IsFull(t, t.buckets[t.dir_[IndexOf(t, key)]])
  THEN SplitBucket(t, t.dir_[IndexOf(t, key)])
  ELSE t

\* while (dir_[IndexOf(key)]->IsFull()) { ... }
RECURSIVE SplitWhileFull(_, _)
SplitWhileFull(t, key) ==
  IF t.status = "ok" /\ IsFull(t, t.buckets[t.dir_[IndexOf(t, key)]])
  THEN SplitWhileFull(SplitBucket(t, t.dir_[IndexOf(t, key)]), key)
  ELSE t

\* dir_[IndexOf(key)]->Insert(key, value), its result dropped.
InsertIntoBucket(t, key, value) ==
  IF t.status # "ok" THEN t
  ELSE [t EXCEPT !.buckets[t.dir_[IndexOf(t, key)]] =
                   BucketInsert(t, @, key, value).b]

TableInsert(t, key, value) == InsertIntoBucket(SplitWhileFull(t, key), key, value)

TableFind(t, key) == BucketFind(t.buckets[t.dir_[IndexOf(t, key)]], key)

TableRemove(t, key) ==
  [t |-> [t EXCEPT !.buckets[t.dir_[IndexOf(t, key)]] = BucketRemove(@, key).b],
   ret |-> BucketRemove(t.buckets[t.dir_[IndexOf(t, key)]], key).ret]

GetNumBuckets(t) == t.num_buckets_

\* The threads that call the hash table and a thread in no call.
Threads == 1..MaxThreads

ThreadIdle == [pc |-> "idle", op |-> "none", key |-> 0, value |-> 0,
               ret |-> FALSE, out |-> <<>>, want |-> <<>>, torn |-> FALSE,
               same |-> FALSE, calls |-> 0]

\* No call of the table yet.
TableIdle == [op |-> "none", key |-> 0, value |-> 0, ret |-> FALSE,
              out |-> <<>>, splits |-> 0]

\* ExtendibleHashTable(bucket_size)
TableConstructed(bucket_size) ==
  /\ global_depth_ = 0
  /\ bucket_size_ = bucket_size
  /\ num_buckets_ = 1
  /\ dir_ = (0 :> 1)
  /\ buckets = (1 :> NewBucket(0))
  /\ table_status = "ok"
  /\ table_map = <<>>
  /\ table_last = TableIdle
  /\ latch_ = 0
  /\ threads = [t \in Threads |-> ThreadIdle]

Init ==
  /\ pages = <<>>
  /\ root_page_id_ = INVALID_PAGE_ID
  /\ next_page_id_ = 1
  /\ leaf_max_size_ \in LeafMaxSizes
  /\ internal_max_size_ \in InternalMaxSizes
  /\ status = "ok"
  /\ live = <<>>
  /\ last = Idle
  /\ obs = Quiet
  /\ rd = Away
  /\ header_page = NoRecord
  /\ load = NoLoad
  /\ TableConstructed(1)

DoInsert ==
  /\ status = "ok"
  /\ last = Idle
  /\ \E key \in KeysOf(leaf_max_size_), value \in Values :
      \E oob \in OobOutcomes(Machine, key, FALSE) :
       \E r \in {Insert(Machine, key, value, oob)} :
          /\ RoomForInsert(r.m)
          /\ Commit(r.m)
          /\ live' = IF r.ret THEN (key :> value) @@ live ELSE live
          /\ last' = [op |-> "Insert", key |-> key, val |-> value,
                      ret |-> r.ret, out |-> <<>>]
          /\ UNCHANGED <<rd, load>>

DoRemove ==
  /\ status = "ok"
  /\ last = Idle
  /\ \E key \in KeysOf(leaf_max_size_) :
      \E oob \in OobOutcomes(Machine, key, TRUE) :
       \E m \in {Remove(Machine, key, oob)} :
          /\ Commit(m)
          /\ live' = [k \in (DOMAIN live) \ {key} |-> live[k]]
          /\ last' = [op |-> "Remove", key |-> key, val |-> 0,
                      ret |-> FALSE, out |-> <<>>]
          /\ UNCHANGED <<rd, load>>

DoGetValue ==
  /\ status = "ok"
  /\ last = Idle
  /\ \E key \in KeysOf(leaf_max_size_) :
      \E oob \in OobOutcomes(Machine, key, FALSE) :
       \E r \in {GetValue(Machine, key, oob)} :
          /\ Commit(r.m)
          /\ UNCHANGED live
          /\ last' = [op |-> "GetValue", key |-> key, val |-> 0,
                      ret |-> r.ret, out |-> r.out]
          /\ UNCHANGED <<rd, load>>

DoScan ==
  /\ status = "ok"
  /\ last = Idle
  /\ UNCHANGED <<table, others, header_page, pages, root_page_id_, next_page_id_, leaf_max_size_,
                 internal_max_size_, status, live, rd>>
  /\ obs' = Quiet
  /\ last' = [op |-> "Scan", key |-> 0, val |-> 0, ret |-> FALSE,
              out |-> Collect(pages, Begin(Machine), End(Machine), 2 * MaxKey + MaxPageId)]

\* The caller takes the result of a call that returned; it can then call again.
Return ==
  /\ status = "ok"
  /\ last # Idle
  /\ last' = Idle
  /\ obs' = Quiet
  /\ UNCHANGED <<table, others, header_page, pages, root_page_id_, next_page_id_, leaf_max_size_,
                 internal_max_size_, status, live, rd>>

Next == DoInsert \/ DoRemove \/ DoGetValue \/ DoScan \/ Return

Spec == Init /\ [][Next]_vars

\* The tree built with leaf_max_size 2 and a wide internal page, whose
\* min_size is above 2.
InitCrab ==
  /\ pages = <<>>
  /\ root_page_id_ = INVALID_PAGE_ID
  /\ next_page_id_ = 1
  /\ leaf_max_size_ = 2
  /\ internal_max_size_ \in {MaxInternalMaxSize, MaxCrabInternalMaxSize}
  /\ status = "ok"
  /\ live = <<>>
  /\ last = Idle
  /\ obs = Quiet
  /\ rd = Away
  /\ header_page = NoRecord
  /\ load = NoLoad
  /\ TableConstructed(1)

SpecCrab == InitCrab /\ [][Next]_vars

\* ------------------------------------------------------ reading the tree
\* The pages reachable from page id through child links (fuel bounds the
\* walk should the links ever form a cycle).
RECURSIVE Subtree(_, _, _)
Subtree(pgs, id, fuel) ==
  IF id \notin DOMAIN pgs \/ fuel = 0 THEN {}
  ELSE IF IsLeafPage(pgs[id]) THEN {id}
  ELSE {id} \cup UNION {Subtree(pgs, pgs[id].vals[i], fuel - 1) :
                          i \in 1..GetSize(pgs[id])}

TreePages == Subtree(pages, root_page_id_, MaxPageId)
TreeLeaves == {id \in TreePages : IsLeafPage(pages[id])}
TreeInternals == TreePages \ TreeLeaves

SubtreeKeys(pgs, id) ==
  UNION {Range(pgs[l].keys) : l \in {x \in Subtree(pgs, id, MaxPageId) : IsLeafPage(pgs[x])}}

\* The (key, value) pairs stored in the leaves of the tree.
StoredPairs(pgs, root) ==
  UNION {{<<pgs[l].keys[i], pgs[l].vals[i]>> : i \in 1..GetSize(pgs[l])} :
           l \in {x \in Subtree(pgs, root, MaxPageId) : IsLeafPage(pgs[x])}}
StoredKeys(pgs, root) == {kv[1] : kv \in StoredPairs(pgs, root)}

\* The leaf chain from the leftmost leaf through next_page_id, as the
\* sequence of the keys in slots [0, size) of each leaf.
RECURSIVE ChainKeysFrom(_, _, _)
ChainKeysFrom(pgs, id, fuel) ==
  IF id = INVALID_PAGE_ID \/ id \notin DOMAIN pgs \/ fuel = 0 THEN <<>>
  ELSE pgs[id].keys \o ChainKeysFrom(pgs, pgs[id].next, fuel - 1)

ChainKeys ==
  IF root_page_id_ = INVALID_PAGE_ID THEN <<>>
  ELSE ChainKeysFrom(pages, FindLeafPage(pages, root_page_id_, 0, "leftMost"),
                     MaxPageId)

StrictlyAscending(s) == \A i, j \in 1..Len(s) : i < j => s[i] < s[j]

\* The keys of S in ascending order.
RECURSIVE SortedSeq(_)
SortedSeq(S) == IF S = {} THEN <<>> ELSE <<Min(S)>> \o SortedSeq(S \ {Min(S)})

\* The distances from page id, at distance d from the root, to the leaves
\* below it.
RECURSIVE LeafDepths(_, _, _, _)
LeafDepths(pgs, id, d, fuel) ==
  IF id \notin DOMAIN pgs \/ fuel = 0 THEN {}
  ELSE IF IsLeafPage(pgs[id]) THEN {d}
  ELSE UNION {LeafDepths(pgs, pgs[id].vals[i], d + 1, fuel - 1) :
                i \in 1..GetSize(pgs[id])}

\* ------------------------------------------------ a reader beside a writer
\* The first thread runs whole Insert and Remove calls, at most
\* MaxWriterCalls of them, at moments when the second thread holds neither
\* the guard nor a latch; the second thread runs GetValue, Begin,
\* GetRootPageId and IsEmpty one step at a time.  While a GetValue(k) of
\* the second thread runs, the first thread works on other keys than k.
SearchOps == {"GetValue", "Begin", "GetRootPageId", "IsEmpty"}

StoredValue(pgs, root, key) ==
  IF key \in StoredKeys(pgs, root)
  THEN Min({kv[2] : kv \in {p \in StoredPairs(pgs, root) : p[1] = key}})
  ELSE 0

\* rd after a call of the first thread that left machine m.
Watched(m) ==
  [rd EXCEPT !.calls = @ + 1, !.bare = FALSE,
             !.always = @ /\ <<rd.key, rd.val>> \in StoredPairs(m.pages, m.root),
             !.never = @ /\ rd.key \notin StoredKeys(m.pages, m.root)]

WriterCanRun ==
  /\ status = "ok"
  /\ rd.guard = "none" /\ rd.latch = {}
  /\ rd.calls < MaxWriterCalls

WriterInsert ==
  /\ WriterCanRun
  /\ \E key \in KeysOf(leaf_max_size_) \ {rd.key}, value \in Values :
      \E oob \in OobOutcomes(Machine, key, FALSE) :
       \E r \in {Insert(Machine, key, value, oob)} :
          /\ RoomForInsert(r.m)
          /\ Commit(r.m)
          /\ rd' = Watched(r.m)
          /\ UNCHANGED <<live, last, load>>

WriterRemove ==
  /\ WriterCanRun
  /\ \E key \in KeysOf(leaf_max_size_) \ {rd.key} :
      \E oob \in OobOutcomes(Machine, key, TRUE) :
       \E m \in {Remove(Machine, key, oob)} :
          /\ Commit(m)
          /\ rd' = Watched(m)
          /\ UNCHANGED <<live, last, load>>

\* The second thread enters a call.
SearchCall ==
  /\ status = "ok"
  /\ rd.pc = "away"
  /\ \E op \in SearchOps, key \in KeysOf(leaf_max_size_) :
       /\ op # "GetValue" => key = 1
       /\ rd' = IF op = "GetValue"
                THEN [rd EXCEPT !.pc = "called", !.op = op, !.key = key,
                        !.val = StoredValue(pages, root_page_id_, key),
                        !.always = key \in StoredKeys(pages, root_page_id_),
                        !.never = key \notin StoredKeys(pages, root_page_id_)]
                ELSE [rd EXCEPT !.pc = "called", !.op = op]
  /\ UNCHANGED <<table, others, header_page, pages, root_page_id_, next_page_id_, leaf_max_size_,
                 internal_max_size_, status, live, last, obs>>

\* Begin (Begin(key) and End alike) tests root_page_id_ first.
SearchCheck ==
  /\ status = "ok"
  /\ rd.pc = "called" /\ rd.op = "Begin"
  /\ rd' = IF root_page_id_ = INVALID_PAGE_ID
           THEN [rd EXCEPT !.pc = "done", !.bare = (rd.guard = "none"),
                           !.out = <<INVALID_PAGE_ID, 0>>]
           ELSE [rd EXCEPT !.pc = "checked", !.bare = (rd.guard = "none")]
  /\ UNCHANGED <<table, others, header_page, pages, root_page_id_, next_page_id_, leaf_max_size_,
                 internal_max_size_, status, live, last, obs>>

\* root_page_id_latch_.RLock()
SearchRLock ==
  /\ status = "ok"
  /\ IF rd.op = "Begin" THEN rd.pc = "checked"
     ELSE rd.pc = "called" /\ rd.op \in {"GetValue", "GetRootPageId"}
  /\ rd' = [rd EXCEPT !.pc = "locked", !.guard = "R", !.bare = FALSE]
  /\ UNCHANGED <<table, others, header_page, pages, root_page_id_, next_page_id_, leaf_max_size_,
                 internal_max_size_, status, live, last, obs>>

\* The head of FindLeafPage: the assert on root_page_id_ and the FetchPage
\* of the root.
SearchFetchRoot ==
  /\ status = "ok"
  /\ rd.pc = "locked" /\ rd.op \in {"GetValue", "Begin"}
  /\ status' = IF root_page_id_ = INVALID_PAGE_ID THEN "assert" ELSE status
  /\ rd' = IF root_page_id_ = INVALID_PAGE_ID
           THEN [rd EXCEPT !.bare = (rd.guard = "none")]
           ELSE [rd EXCEPT !.pc = "fetched", !.page = root_page_id_,
                           !.pinned = {root_page_id_},
                           !.bare = (rd.guard = "none")]
  /\ UNCHANGED <<table, others, header_page, pages, root_page_id_, next_page_id_, leaf_max_size_,
                 internal_max_size_, live, last, obs>>

\* root_page_id_latch_.RUnlock(), in FindLeafPage before page->RLatch() and
\* in GetRootPageId before the read.
SearchRUnlock ==
  /\ status = "ok"
  /\ IF rd.op = "GetRootPageId" THEN rd.pc = "locked" ELSE rd.pc = "fetched"
  /\ rd' = [rd EXCEPT !.pc = "unlocked", !.guard = "none", !.bare = FALSE]
  /\ UNCHANGED <<table, others, header_page, pages, root_page_id_, next_page_id_, leaf_max_size_,
                 internal_max_size_, status, live, last, obs>>

\* page->RLatch() on the page fetched as the root and the rest of GetValue:
\* the descent, the Lookup, RUnlatch and UnpinPage.
SearchGetValue ==
  /\ status = "ok"
  /\ rd.pc = "unlocked" /\ rd.op = "GetValue"
  /\ \E oob \in OobOutcomes([Machine EXCEPT !.root = rd.page], rd.key, FALSE) :
      \E r \in {GetValueFrom(
                   Descend(RLatch([Machine EXCEPT !.pins = (rd.page :> 1)],
                                  rd.page),
                           rd.page, rd.key, "SEARCH"), rd.key, oob)} :
        /\ status' = r.m.status
        /\ rd' = [rd EXCEPT !.pc = "done", !.page = 0, !.pinned = {},
                            !.bare = FALSE, !.ret = r.ret, !.out = r.out]
  /\ UNCHANGED <<table, others, header_page, pages, root_page_id_, next_page_id_, leaf_max_size_,
                 internal_max_size_, live, last, obs>>

\* page->RLatch() on the page fetched as the root and the rest of Begin;
\* the iterator it returns is given up at once.
SearchBegin ==
  /\ status = "ok"
  /\ rd.pc = "unlocked" /\ rd.op = "Begin"
  /\ rd' = [rd EXCEPT !.pc = "done", !.page = 0, !.pinned = {}, !.bare = FALSE,
                      !.out = <<FindLeafPage(pages, rd.page, 0, "leftMost"), 0>>]
  /\ UNCHANGED <<table, others, header_page, pages, root_page_id_, next_page_id_, leaf_max_size_,
                 internal_max_size_, status, live, last, obs>>

\* The read of root_page_id_ by IsEmpty and by the return of GetRootPageId.
SearchReadRoot ==
  /\ status = "ok"
  /\ IF rd.op = "GetRootPageId" THEN rd.pc = "unlocked"
     ELSE rd.pc = "called" /\ rd.op = "IsEmpty"
  /\ rd' = [rd EXCEPT !.pc = "done", !.bare = (rd.guard = "none"),
                      !.ret = (root_page_id_ = INVALID_PAGE_ID),
                      !.out = <<root_page_id_>>]
  /\ UNCHANGED <<table, others, header_page, pages, root_page_id_, next_page_id_, leaf_max_size_,
                 internal_max_size_, status, live, last, obs>>

\* The second thread takes the result of its call.
SearchReturn ==
  /\ status = "ok"
  /\ rd.pc = "done"
  /\ rd' = [Away EXCEPT !.calls = rd.calls]
  /\ UNCHANGED <<table, others, header_page, pages, root_page_id_, next_page_id_, leaf_max_size_,
                 internal_max_size_, status, live, last, obs>>

NextSearch ==
  \/ WriterInsert \/ WriterRemove
  \/ SearchCall \/ SearchCheck \/ SearchRLock \/ SearchFetchRoot
  \/ SearchRUnlock \/ SearchGetValue \/ SearchBegin \/ SearchReadRoot
  \/ SearchReturn

SpecSearch == Init /\ [][NextSearch]_vars

\* The steps of the second thread up to root_page_id_latch_.RUnlock() and
\* the return.  The scheduler gives a thread that can run its next step;
\* nobody is bound to start a call.
SearchSteps ==
  \/ SearchCheck \/ SearchRLock \/ SearchFetchRoot \/ SearchRUnlock
  \/ SearchReadRoot \/ SearchReturn

\* After RUnlock the thread can always run on: page->RLatch() finds no
\* writer inside a call, so SearchGetValue and SearchBegin are enabled
\* exactly here.
SearchCanDescend ==
  status = "ok" /\ rd.pc = "unlocked" /\ rd.op \in {"GetValue", "Begin"}

\* Weak fairness of every step of the second thread; for the descent it is
\* written with the enabling condition itself.
FairSearch ==
  /\ SpecSearch
  /\ WF_vars(SearchSteps)
  /\ []<>(~SearchCanDescend)

\* The assert at the head of FindLeafPage failed in the call of the second
\* thread, which holds the guard it took in GetValue.
SearchAborted == status = "assert" /\ rd.pc = "locked" /\ rd.guard = "R"

\* A call of the first thread ended the run.
WriterStopped == status # "ok" /\ ~SearchAborted

\* --------------------------------------------- calls of the hash table
\* Every public call holds latch_ from its first line to its return: one
\* action each.
Table ==
  [dir_ |-> dir_, global_depth_ |-> global_depth_, bucket_size_ |-> bucket_size_,
   num_buckets_ |-> num_buckets_, buckets |-> buckets, status |-> table_status]

TableCommit(t) ==
  /\ dir_' = t.dir_
  /\ global_depth_' = t.global_depth_
  /\ num_buckets_' = t.num_buckets_
  /\ buckets' = t.buckets
  /\ table_status' = t.status
  /\ UNCHANGED <<bucket_size_, tree, others>>

DoTableInsert ==
  /\ table_status = "ok"
  /\ \E key \in TableKeys, value \in TableValues :
      \E t \in {TableInsert(Table, key, value)} :
        /\ TableCommit(t)
        /\ table_map' = (key :> value) @@ table_map
        /\ table_last' = [op |-> "Insert", key |-> key, value |-> value,
                          ret |-> t.status = "ok", out |-> <<>>,
                          splits |-> t.num_buckets_ - num_buckets_]

DoTableRemove ==
  /\ table_status = "ok"
  /\ \E key \in TableKeys :
      \E r \in {TableRemove(Table, key)} :
        /\ TableCommit(r.t)
        /\ table_map' = [k \in (DOMAIN table_map) \ {key} |-> table_map[k]]
        /\ table_last' = [op |-> "Remove", key |-> key, value |-> 0,
                          ret |-> r.ret, out |-> <<>>, splits |-> 0]

DoTableFind ==
  /\ table_status = "ok"
  /\ \E key \in TableKeys :
      \E r \in {TableFind(Table, key)} :
        /\ table_last' = [op |-> "Find", key |-> key, value |-> 0,
                          ret |-> r.ret, out |-> r.out, splits |-> 0]
        /\ UNCHANGED <<dir_, global_depth_, bucket_size_, num_buckets_, buckets,
                       table_status, table_map, tree, others>>

InitTable ==
  /\ pages = <<>>
  /\ root_page_id_ = INVALID_PAGE_ID
  /\ next_page_id_ = 1
  /\ leaf_max_size_ = MaxLeafMaxSize
  /\ internal_max_size_ = MaxInternalMaxSize
  /\ status = "ok"
  /\ live = <<>>
  /\ last = Idle
  /\ obs = Quiet
  /\ rd = Away
  /\ header_page = NoRecord
  /\ load = NoLoad
  /\ \E bucket_size \in BucketSizes : TableConstructed(bucket_size)

NextTable == DoTableInsert \/ DoTableRemove \/ DoTableFind

SpecTable == InitTable /\ [][NextTable]_vars

\* The pairs the buckets of the directory hold.
TablePairs ==
  UNION {Range(buckets[dir_[i]].list_) : i \in DOMAIN dir_}

\* ------------------------------------- the hash table called by threads
\* Each thread calls the public methods; a call is taken step by step:
\* ThreadCall (the call is made), ThreadLock (the scoped_lock is built),
\* then for Insert the turns of the while loop, each in up to three steps
\* (ThreadDeepen: global_depth_++; ThreadDouble: resize and copy of dir_;
\* ThreadRehash: the two new buckets, num_buckets_++ and the new pointers),
\* and ThreadFinish (the bucket's Find, Remove or Insert or the getter's
\* read, and the return, which destroys the scoped_lock).
TableOps == {"Insert", "Remove", "Find", "GetGlobalDepth", "GetLocalDepth",
             "GetNumBuckets"}
ThreadKeys == 0..MaxThreadKey

\* Only Insert, Remove and Find build the scoped_lock.
LocksButGetters(op) == op \in {"Insert", "Remove", "Find"}

\* The methods that begin with std::scoped_lock<std::mutex> lock(latch_).
Locks(op) == op \in TableOps

\* What the call gives when it runs alone on table t: [t, ret, out].
Sequential(t, op, key, value) ==
  CASE op = "Insert" -> [t |-> TableInsert(t, key, value), ret |-> TRUE, out |-> <<>>]
    [] op = "Remove" -> [t |-> TableRemove(t, key).t,
                         ret |-> TableRemove(t, key).ret, out |-> <<>>]
    [] op = "Find" -> [t |-> t, ret |-> TableFind(t, key).ret,
                       out |-> TableFind(t, key).out]
    [] op = "GetGlobalDepth" -> [t |-> t, ret |-> TRUE, out |-> <<t.global_depth_>>]
    [] op = "GetLocalDepth" -> [t |-> t, ret |-> TRUE,
                                out |-> <<t.buckets[t.dir_[key]].depth_>>]
    [] OTHER -> [t |-> t, ret |-> TRUE, out |-> <<GetNumBuckets(t)>>]

\* The directory is in the middle of a doubling: global_depth_ has been
\* incremented and dir_ not resized yet.
MidDoubling == Cardinality(DOMAIN dir_) # 2 ^ global_depth_

ThreadFrame == UNCHANGED <<bucket_size_, table_map, table_last, tree, load>>

ThreadCall(th) ==
  /\ table_status = "ok"
  /\ threads[th].pc = "idle"
  /\ threads[th].calls < MaxThreadCalls
  /\ \E op \in TableOps, key \in ThreadKeys, value \in TableValues :
       /\ op \in {"GetGlobalDepth", "GetNumBuckets"} => key = 0
       /\ op = "GetLocalDepth" => key = 0
       /\ op # "Insert" => value = 1
       /\ threads' = [threads EXCEPT ![th] =
                        [ThreadIdle EXCEPT !.pc = "called", !.op = op, !.key = key,
                                           !.value = value,
                                           !.calls = threads[th].calls + 1]]
  /\ UNCHANGED <<dir_, global_depth_, num_buckets_, buckets, table_status, latch_>>
  /\ ThreadFrame

\* std::scoped_lock<std::mutex> lock(latch_): the thread waits until the
\* mutex is free.
ThreadLock(th) ==
  /\ table_status = "ok"
  /\ threads[th].pc = "called"
  /\ IF Locks(threads[th].op)
     THEN latch_ = 0 /\ latch_' = th
     ELSE UNCHANGED latch_
  /\ threads' = [threads EXCEPT ![th].pc = "body",
                                ![th].want = <<Sequential(Table, threads[th].op,
                                                threads[th].key, threads[th].value)>>]
  /\ UNCHANGED <<dir_, global_depth_, num_buckets_, buckets, table_status>>
  /\ ThreadFrame

\* The thread is at the test of the while loop of Insert and the bucket of
\* its key is full.
AtFullBucket(th) ==
  /\ table_status = "ok"
  /\ threads[th].pc = "body" /\ threads[th].op = "Insert"
  /\ ~MidDoubling
  /\ IsFull(Table, buckets[dir_[IndexOf(Table, threads[th].key)]])

\* global_depth_++ of a turn whose target is as deep as the table.
ThreadDeepen(th) ==
  /\ AtFullBucket(th)
  /\ buckets[dir_[IndexOf(Table, threads[th].key)]].depth_ = global_depth_
  /\ global_depth_' = global_depth_ + 1
  /\ threads' = [threads EXCEPT ![th].pc = "deepened"]
  /\ UNCHANGED <<dir_, num_buckets_, buckets, table_status, latch_>>
  /\ ThreadFrame

\* dir_.resize(capacity << 1) and the copy of the lower half; when the
\* table would not fit in memory resize throws std::bad_alloc, which leaves
\* Insert and destroys the scoped_lock.
ThreadDouble(th) ==
  /\ table_status = "ok"
  /\ threads[th].pc = "deepened"
  /\ IF global_depth_ > MaxGlobalDepth
     THEN /\ table_status' = "bad_alloc"
          /\ latch_' = IF latch_ = th THEN 0 ELSE latch_
          /\ threads' = [threads EXCEPT ![th].pc = "thrown"]
          /\ UNCHANGED dir_
     ELSE /\ dir_' = [i \in 0..(2 * Cardinality(DOMAIN dir_) - 1) |->
                        dir_[i % Cardinality(DOMAIN dir_)]]
          /\ threads' = [threads EXCEPT ![th].pc = "doubled"]
          /\ UNCHANGED <<table_status, latch_>>
  /\ UNCHANGED <<global_depth_, num_buckets_, buckets>>
  /\ ThreadFrame

\* The rest of the turn: bucket_0 and bucket_1, the items moved,
\* num_buckets_++ and the slots of the target set to the new buckets.
ThreadRehash(th) ==
  /\ \/ threads[th].pc = "doubled" /\ table_status = "ok"
     \/ /\ AtFullBucket(th)
        /\ buckets[dir_[IndexOf(Table, threads[th].key)]].depth_ < global_depth_
  /\ \E t \in {Rehash(Table, dir_[IndexOf(Table, threads[th].key)])} :
       /\ dir_' = t.dir_
       /\ num_buckets_' = t.num_buckets_
       /\ buckets' = t.buckets
  /\ threads' = [threads EXCEPT ![th].pc = "body"]
  /\ UNCHANGED <<global_depth_, table_status, latch_>>
  /\ ThreadFrame

\* The last statement of the method and its return: a thread that finds
\* the directory in the middle of a doubling may index past its end.
ThreadFinish(th) ==
  /\ table_status = "ok"
  /\ threads[th].pc = "body"
  /\ threads[th].op = "Insert" =>
       (MidDoubling \/ ~IsFull(Table, buckets[dir_[IndexOf(Table, threads[th].key)]]))
  /\ IF MidDoubling
     THEN /\ \E ret \in BOOLEAN :
               threads' = [threads EXCEPT ![th].pc = "done", ![th].torn = TRUE,
                                          ![th].ret = ret]
          /\ UNCHANGED <<dir_, global_depth_, num_buckets_, buckets>>
     ELSE \E r \in {IF threads[th].op = "Insert"
                     THEN [t |-> InsertIntoBucket(Table, threads[th].key,
                                                  threads[th].value),
                           ret |-> TRUE, out |-> <<>>]
                     ELSE Sequential(Table, threads[th].op, threads[th].key,
                                     threads[th].value)} :
            /\ dir_' = r.t.dir_
            /\ global_depth_' = r.t.global_depth_
            /\ num_buckets_' = r.t.num_buckets_
            /\ buckets' = r.t.buckets
            /\ threads' = [threads EXCEPT ![th].pc = "done", ![th].ret = r.ret,
                                          ![th].out = r.out,
                                          ![th].same = (r.t = threads[th].want[1].t)]
  /\ latch_' = IF latch_ = th THEN 0 ELSE latch_
  /\ UNCHANGED table_status
  /\ ThreadFrame

\* The caller takes the result and may call again.
ThreadReturn(th) ==
  /\ table_status = "ok"
  /\ threads[th].pc = "done"
  /\ threads' = [threads EXCEPT ![th] = [ThreadIdle EXCEPT !.calls = threads[th].calls]]
  /\ UNCHANGED <<dir_, global_depth_, num_buckets_, buckets, table_status, latch_>>
  /\ ThreadFrame

NextThreads ==
  \E th \in Threads :
    \/ ThreadCall(th)
    \/ ThreadLock(th)
    \/ ThreadDeepen(th)
    \/ ThreadDouble(th)
    \/ ThreadRehash(th)
    \/ ThreadFinish(th)
    \/ ThreadReturn(th)

SpecThreads == InitTable /\ [][NextThreads]_vars

\* ------------------------------------------------- the loading workload
\* One caller fills the tree with the keys 1, 2, ... in ascending order,
\* removes keys at either end of what is stored and looks keys up; the leaf
\* can be wider than under Spec.
LoadLeafMaxSizes == MaxLeafMaxSize..MaxLoadLeafMaxSize
LoadKeys == 1..MaxLoadKey

\* The number of levels of the tree (0: no root).
Height(pgs, root) ==
  IF root = INVALID_PAGE_ID THEN 0
  ELSE 1 + Max(LeafDepths(pgs, root, 0, MaxPageId) \cup {0})

InitLoad ==
  /\ pages = <<>>
  /\ root_page_id_ = INVALID_PAGE_ID
  /\ next_page_id_ = 1
  /\ leaf_max_size_ \in LoadLeafMaxSizes
  /\ internal_max_size_ = MaxInternalMaxSize
  /\ status = "ok"
  /\ live = <<>>
  /\ last = Idle
  /\ obs = Quiet
  /\ rd = Away
  /\ header_page = NoRecord
  /\ load = NoLoad
  /\ TableConstructed(1)

DoLoadInsert ==
  /\ status = "ok"
  /\ last = Idle
  /\ load.inserted < MaxLoadKey
  /\ \E key \in {load.inserted + 1}, value \in Values :
      \E oob \in OobOutcomes(Machine, key, FALSE) :
       \E r \in {Insert(Machine, key, value, oob)} :
          /\ RoomForInsert(r.m)
          /\ Commit(r.m)
          /\ live' = IF r.ret THEN (key :> value) @@ live ELSE live
          /\ last' = [op |-> "Insert", key |-> key, val |-> value,
                      ret |-> r.ret, out |-> <<>>]
          /\ load' = [load EXCEPT !.inserted = key,
                                  !.mixed = @ \/ load.removed # <<>>,
                                  !.high = Height(r.m.pages, r.m.root)]
          /\ UNCHANGED rd

DoLoadRemove ==
  /\ status = "ok"
  /\ last = Idle
  /\ live # <<>>
  /\ Len(load.removed) < MaxLoadRemoves
  /\ \E key \in {Min(DOMAIN live), Max(DOMAIN live)} :
      \E oob \in OobOutcomes(Machine, key, TRUE) :
       \E m \in {Remove(Machine, key, oob)} :
          /\ Commit(m)
          /\ live' = [k \in (DOMAIN live) \ {key} |-> live[k]]
          /\ last' = [op |-> "Remove", key |-> key, val |-> 0,
                      ret |-> FALSE, out |-> <<>>]
          /\ load' = [load EXCEPT !.removed = Append(@, key),
                                  !.merged = @ \/ m.merged # {}]
          /\ UNCHANGED rd

DoLoadGetValue ==
  /\ status = "ok"
  /\ last = Idle
  /\ \E key \in LoadKeys :
      \E oob \in OobOutcomes(Machine, key, FALSE) :
       \E r \in {GetValue(Machine, key, oob)} :
          /\ Commit(r.m)
          /\ UNCHANGED <<live, load>>
          /\ last' = [op |-> "GetValue", key |-> key, val |-> 0,
                      ret |-> r.ret, out |-> r.out]
          /\ UNCHANGED rd

NextLoad == DoLoadInsert \/ DoLoadRemove \/ DoLoadGetValue \/ DoScan \/ Return

SpecLoad == InitLoad /\ [][NextLoad]_vars

\* ----------------------------------------------------------------- claims
\* C1: a GetValue of a key that was inserted (Insert returned true) and not
\* removed afterwards returns true and yields the value of that Insert.
C1_GetValueFindsLiveKey ==
  (last.op = "GetValue" /\ last.key \in DOMAIN live)
    => (last.ret /\ last.out = <<live[last.key]>>)

\* C2: on a non-empty tree, a GetValue of a key that was removed since its
\* last insert, or never inserted, returns false and appends nothing.
C2_GetValueMissesAbsentKey ==
  (last.op = "GetValue" /\ last.key \notin DOMAIN live
     /\ root_page_id_ # INVALID_PAGE_ID)
    => (~last.ret /\ last.out = <<>>)

\* C3: Insert(k, v) returns false iff k is already in the tree, and then
\* pairs and structure are unchanged; otherwise it returns true and the
\* stored pairs become the old pairs plus (k, v).
C3_InsertContract ==
  [][(last = Idle /\ last'.op = "Insert") =>
       LET k == last'.key
           v == last'.val
           present == k \in StoredKeys(pages, root_page_id_)
       IN /\ last'.ret = ~present
          /\ ~last'.ret => (pages' = pages /\ root_page_id_' = root_page_id_)
          /\ last'.ret => StoredPairs(pages', root_page_id_')
                            = StoredPairs(pages, root_page_id_) \cup {<<k, v>>}]_vars

\* C4: Remove(k) of a key that is not stored is a no-op: every page, the
\* root page id and the stored pairs are as before, no page is deleted.
C4_RemoveAbsentIsNoOp ==
  [][(last = Idle /\ last'.op = "Remove"
        /\ last'.key \notin StoredKeys(pages, root_page_id_))
       => (pages' = pages /\ root_page_id_' = root_page_id_)]_vars

\* C5: the keys read along the leaf chain are strictly ascending, none twice.
C5_LeafChainAscending == status = "ok" => StrictlyAscending(ChainKeys)

\* C6: on a non-empty tree the keys collected from Begin() up to End() are
\* exactly the live keys, each once, in sorted order.
C6_IteratorRoundTrip ==
  (last.op = "Scan" /\ root_page_id_ # INVALID_PAGE_ID)
    => last.out = SortedSeq(DOMAIN live)

\* C7: in every internal page, the key of slot i >= 1 is the minimum key
\* stored in the subtree of child i.
C7_SeparatorIsSubtreeMin ==
  status = "ok" =>
    \A id \in TreeInternals : \A i \in 2..GetSize(pages[id]) :
      LET ks == SubtreeKeys(pages, pages[id].vals[i])
      IN ks # {} /\ pages[id].keys[i] = Min(ks)

\* C8: keys are strictly increasing within every leaf (slots [0, size)) and
\* every internal page (slots [1, size)), and no key is in two leaves.
C8_PageOrderAndUniqueKeys ==
  status = "ok" =>
    /\ \A id \in TreeLeaves : StrictlyAscending(pages[id].keys)
    /\ \A id \in TreeInternals : StrictlyAscending(Tail(pages[id].keys))
    /\ \A a, b \in TreeLeaves :
         a # b => Range(pages[a].keys) \cap Range(pages[b].keys) = {}

\* C9: when a call has returned, every non-root page of the tree has
\* min_size <= size <= max_size.
C9_NonRootSizeBounds ==
  status = "ok" =>
    \A id \in TreePages \ {root_page_id_} :
      /\ GetMinSize(pages[id]) <= GetSize(pages[id])
      /\ GetSize(pages[id]) <= pages[id].max_size

\* C10: every leaf is at the same distance from the root.
C10_LeavesAtSameDepth ==
  status = "ok" => Cardinality(LeafDepths(pages, root_page_id_, 0, MaxPageId)) <= 1

\* C11: when Insert or Remove has returned, every child named by a slot of
\* an internal page names that page as its parent, and the root names no
\* parent.
C11_ParentPointers ==
  (status = "ok" /\ root_page_id_ # INVALID_PAGE_ID) =>
    /\ root_page_id_ \in DOMAIN pages
    /\ pages[root_page_id_].parent = INVALID_PAGE_ID
    /\ \A id \in TreeInternals : \A i \in 1..GetSize(pages[id]) :
         /\ pages[id].vals[i] \in DOMAIN pages
         /\ pages[pages[id].vals[i]].parent = id

C15_GetValueOnEmptyTree ==
  (last.op = "GetValue" /\ root_page_id_ = INVALID_PAGE_ID)
    => (status = "ok" /\ ~last.ret /\ last.out = <<>>)

C14_InsertHeldWholePath ==
  /\ status = "ok" /\ last.op = "Insert" /\ last.ret
  /\ Len(obs.crab) >= 2
  /\ Cardinality(obs.crab[Len(obs.crab)].held) = Len(obs.crab)
  /\ obs.latch = {} /\ obs.guard = "none"

\* C14: when GetValue, Insert or Remove has returned, the calling thread
\* holds no page latch and not the guard, has released nothing it did not
\* hold, and the page set is empty.
C14_LatchesReleased ==
  (status = "ok" /\ last.op \in {"GetValue", "Insert", "Remove"})
    => /\ obs.latch = {}
       /\ obs.guard = "none"
       /\ obs.unlocks = {}
       /\ obs.page_set = <<>>

\* C19: a page of the tree is changed by Insert or Remove only while the
\* calling thread holds its write latch.
C19_WritesUnderWriteLatch ==
  (status = "ok" /\ last.op \in {"Insert", "Remove"}) => obs.unlatched = {}
\* ------------------------------------------------------------- crabbing
\* Whether the page of descent record e was safe when it was latched: by
\* the rule for every page, and by the rule with size > 2 for a root page
\* under DELETE.
SafeByRule(e) ==
  IF e.operation = "INSERT"
  THEN IF e.leaf THEN e.size < e.max_size - 1 ELSE e.size < e.max_size
  ELSE e.size > e.min_size

SafeByRootRule(e) ==
  IF e.operation = "DELETE" /\ e.root THEN e.size > 2 ELSE SafeByRule(e)

\* What the page set holds when the i-th page of the descent is latched.
HeldBefore(i) ==
  IF i = 1 THEN {0} ELSE obs.crab[i - 1].held \cup {obs.crab[i - 1].page}

\* The descent released only at safe pages, kept everything at the others,
\* and no page it kept was changed after its latch was released; safe[i]
\* tells whether the i-th page of the descent is safe.
CrabbingUnder(safe) ==
  /\ \A i \in 1..Len(obs.crab) :
       /\ obs.crab[i].released => safe[i]
       /\ ~safe[i] => obs.crab[i].held = HeldBefore(i)
  /\ obs.unlatched \cap UNION {e.held : e \in Range(obs.crab)} = {}

\* A Remove has returned whose descent found a root of more than two slots
\* and released the guard there.
C20_RemoveReleasedAtRoot ==
  /\ status = "ok" /\ last.op = "Remove"
  /\ Len(obs.crab) >= 2
  /\ obs.crab[1].released /\ obs.crab[1].size > 2

\* C20 as stated: the descent of Insert and Remove releases the ancestors
\* and the guard only at a page that is safe (insert: leaf size <
\* max_size - 1, internal size < max_size; delete: size > min_size), and
\* otherwise keeps them until the change is finished.
C20_CrabbingByRule ==
  (status = "ok" /\ last.op \in {"Insert", "Remove"})
    => CrabbingUnder([i \in 1..Len(obs.crab) |-> SafeByRule(obs.crab[i])])

\* C20 amended: the same with the root page safe under DELETE when its size
\* is above 2.
C20_CrabbingByRootRule ==
  (status = "ok" /\ last.op \in {"Insert", "Remove"})
    => CrabbingUnder([i \in 1..Len(obs.crab) |-> SafeByRootRule(obs.crab[i])])

\* C16: a searching thread that has read root_page_id_ and fetched the root
\* holds the guard or the latch of that page.
C16_GuardUntilRootLatched ==
  rd.page # 0 => (rd.guard = "R" \/ rd.page \in rd.latch)

\* C17: a GetValue(k) that ran beside calls on other keys returns true with
\* v if (k, v) was stored during the whole call, and false if k was absent
\* during the whole call.
C17_ConcurrentGetValue ==
  (status = "ok" /\ rd.pc = "done" /\ rd.op = "GetValue") =>
    /\ rd.always => (rd.ret /\ rd.out = <<rd.val>>)
    /\ rd.never => ~rd.ret

\* C18: root_page_id_ is read only by a thread that holds the guard, and
\* written only by a thread that holds its write lock.
C18_RootIdUnderGuard ==
  ~rd.bare /\ ~obs.root_unguarded
\* A call has gone down two steps: GetValue through read latches, Remove
\* through write latches.
C21_TwoStepsDown ==
  /\ status = "ok"
  /\ last.op \in {"GetValue", "Remove"}
  /\ Cardinality(obs.steps) >= 2
  /\ obs.latch = {}

\* C21: at every step of a descent from a page to its child, the thread had
\* latched the child when it gave up the latch of the page.
C21_HandOverHand ==
  (status = "ok" /\ last.op \in {"GetValue", "Insert", "Remove"})
    => obs.early = {}

\* C22: InsertRecord is called on the header page only while the index has
\* no record, UpdateRecord only when it has one, and after every Insert and
\* Remove the record holds root_page_id_.
C22_HeaderProtocol ==
  (status = "ok" /\ last.op \in {"Insert", "Remove"}) =>
    /\ \A c \in Range(obs.header_calls) : c.insert <=> ~c.found
    /\ header_page.has => header_page.root = root_page_id_
    /\ ~header_page.has => root_page_id_ = INVALID_PAGE_ID

\* What Find(key) gives for a table that is the map mp.
MapFind(mp, key) ==
  IF key \in DOMAIN mp THEN [ret |-> TRUE, out |-> <<mp[key]>>]
  ELSE [ret |-> FALSE, out |-> <<>>]

\* The places, bucket object and position in its list_, that hold the key.
TableEntries(key) ==
  {e \in UNION {{<<id, p>> : p \in 1..Len(buckets[id].list_)} :
                  id \in DOMAIN buckets} :
     buckets[e[1]].list_[e[2]][1] = key}

\* C23: every call of the table returns, and Find then answers as the map
\* that the Insert and Remove calls so far describe: the value of the last
\* Insert of the key if no Remove of it followed, absent otherwise.
C23_TableIsMap ==
  /\ table_status = "ok"
  /\ \A key \in TableKeys : TableFind(Table, key) = MapFind(table_map, key)

\* C24: an Insert of a key directly after an Insert of the same key returns,
\* Find then gives the second value and the table holds one entry for the
\* key, whatever the fill of the key's bucket.
C24_UpsertLaw ==
  [][(table_last.op = "Insert" /\ table_last'.op = "Insert"
        /\ table_last'.key = table_last.key)
      => /\ table_status' = "ok"
         /\ TableFind(Table, table_last.key)'
              = [ret |-> TRUE, out |-> <<table_last'.value>>]
         /\ Cardinality(TableEntries(table_last.key))' = 1]_vars

\* A Remove of a stored key has returned true in a table of several buckets
\* that holds other keys.
C25_RemovedFromSplitTable ==
  /\ table_last.op = "Remove" /\ table_last.ret
  /\ global_depth_ >= 2
  /\ Cardinality(DOMAIN table_map) >= 2

\* C25: Remove(k) returns true iff Find(k) found k before; after it Find(k)
\* finds nothing and every other key is found as before; a Remove(k)
\* directly after a Remove(k) returns false.
C25_RemoveContract ==
  [][\A k \in TableKeys :
       (table_last'.op = "Remove" /\ table_last'.key = k)
         => /\ table_last'.ret = TableFind(Table, k).ret
            /\ ~TableFind(Table, k)'.ret
            /\ \A key \in TableKeys \ {k} :
                 TableFind(Table, key)' = TableFind(Table, key)
            /\ (table_last.op = "Remove" /\ table_last.key = k)
                 => ~table_last'.ret]_vars

\* The directory has doubled twice and still has a bucket above the global
\* depth.
C26_DoubledTwice ==
  /\ table_status = "ok"
  /\ global_depth_ >= 2
  /\ \E i \in DOMAIN dir_ : buckets[dir_[i]].depth_ < global_depth_

\* C26: after every call dir_ has the slots 0 .. (1 << global_depth_) - 1
\* and no bucket of it is deeper than global_depth_.
C26_DirectoryLength ==
  table_status = "ok" =>
    /\ DOMAIN dir_ = 0..(2 ^ global_depth_ - 1)
    /\ \A i \in DOMAIN dir_ : buckets[dir_[i]].depth_ <= global_depth_

\* Buckets of depth 2 or more and a shallower one all hold entries.
C27_EntriesAtSeveralDepths ==
  /\ table_status = "ok"
  /\ \E i, j \in DOMAIN dir_ :
       /\ buckets[dir_[i]].depth_ >= 2 /\ buckets[dir_[i]].list_ # <<>>
       /\ buckets[dir_[j]].depth_ < buckets[dir_[i]].depth_
       /\ buckets[dir_[j]].list_ # <<>>

\* C27: after every call each entry of the bucket of slot i, d deep, has a
\* hash whose low d bits are those of i; so every stored key is in the
\* bucket of dir_[IndexOf(key)].
C27_EntriesMatchSlot ==
  table_status = "ok" =>
    /\ \A i \in DOMAIN dir_ :
         \A e \in Range(buckets[dir_[i]].list_) :
           LowBits(Hash(e[1]), buckets[dir_[i]].depth_)
             = LowBits(i, buckets[dir_[i]].depth_)
    /\ \A key \in TableKeys :
         \A e \in TableEntries(key) : e[1] = dir_[IndexOf(Table, key)]

\* A bucket shared by several slots beside buckets of full depth.
C28_SharedBucket ==
  /\ table_status = "ok"
  /\ global_depth_ >= 2
  /\ \E i, j \in DOMAIN dir_ : i # j /\ dir_[i] = dir_[j]
  /\ \E i \in DOMAIN dir_ : buckets[dir_[i]].depth_ = global_depth_

\* C28: after every call two slots point to the same bucket iff they agree
\* on as many low bits as the bucket is deep, and a bucket d deep is
\* pointed to by 2^(global_depth_ - d) slots.
C28_SlotsOfBucket ==
  table_status = "ok" =>
    /\ \A i, j \in DOMAIN dir_ :
         dir_[i] = dir_[j] <=>
           LowBits(i, buckets[dir_[i]].depth_)
             = LowBits(j, buckets[dir_[i]].depth_)
    /\ \A id \in {dir_[i] : i \in DOMAIN dir_} :
         Cardinality({i \in DOMAIN dir_ : dir_[i] = id})
           = 2 ^ (global_depth_ - buckets[id].depth_)

\* An Insert has returned that had to split twice or more.
C29_InsertSplitTwice ==
  /\ table_status = "ok"
  /\ table_last.op = "Insert" /\ table_last.splits >= 2
  /\ <<table_last.key, table_last.value>> \in TablePairs

\* C29: when a call returns no bucket holds more than bucket_size_ entries,
\* and the pair given to Insert is stored.
C29_NoBucketOverfull ==
  table_status = "ok" =>
    /\ \A id \in DOMAIN buckets : Len(buckets[id].list_) <= bucket_size_
    /\ table_last.op = "Insert" =>
         <<table_last.key, table_last.value>> \in TablePairs

\* Four buckets or more after an Insert that split.
C30_FourBuckets ==
  /\ table_status = "ok"
  /\ table_last.op = "Insert" /\ table_last.splits >= 1
  /\ GetNumBuckets(Table) >= 4

\* C30: after every call GetNumBuckets() is the number of bucket objects dir_
\* points to.
C30_NumBuckets ==
  table_status = "ok" =>
    GetNumBuckets(Table) = Cardinality({dir_[i] : i \in DOMAIN dir_})
\* ------------------------------------------------------------ C33 .. C40
\* The redistribution of the call that has just returned, when there was one.
Redis == obs.redis[1]

\* C33: after a Remove that redistributed, the parent's key at the slot of
\* the right-hand page of the pair (N itself when it borrowed from its left
\* sibling, the right sibling when N at index 0 borrowed from it) equals that
\* page's new slot-0 key.
C33_SeparatorAfterRedistribute ==
  (status = "ok" /\ last.op = "Remove" /\ obs.redis # <<>>) =>
    pages[Redis.parent].keys[Redis.index + 1] =
      (IF Redis.from_prev THEN pages[Redis.node].keys[1]
       ELSE pages[Redis.neighbor].keys[1])
\* C39: every slot that the leaf's Lookup and RemoveAndDeleteRecord read in
\* the call that has just returned lies in [0, size).
C39_SlotsInBounds ==
  \A s \in obs.slots : 0 <= s[1] /\ s[1] < s[2]
\* C34: a Remove that redistributed left the sibling one entry smaller and
\* N one entry larger, the entry now at N's front being the left sibling's
\* old last entry, or the one at N's end the right sibling's old first entry
\* (for an internal page the entry's child pointer).
C34_RedistributeMovesOne ==
  (status = "ok" /\ last.op = "Remove" /\ obs.redis # <<>>) =>
    LET sibling == pages[Redis.neighbor]
        node == pages[Redis.node]
        was == Len(Redis.neighbor_keys)
    IN /\ GetSize(sibling) = was - 1
       /\ GetSize(node) = Len(Redis.node_keys) + 1
       /\ IF Redis.from_prev
          THEN /\ node.vals[1] = Redis.neighbor_vals[was]
               /\ IsLeafPage(node) => node.keys[1] = Redis.neighbor_keys[was]
          ELSE /\ node.vals[GetSize(node)] = Redis.neighbor_vals[1]
               /\ IsLeafPage(node) => node.keys[GetSize(node)] = Redis.neighbor_keys[1]
\* The leaf split of the call that has just returned, when there was one.
Split == obs.split[1]

AfterS5 ==
  /\ status = "ok" /\ leaf_max_size_ = 3
  /\ load.inserted = 6 /\ ~load.mixed /\ load.removed = <<1, 2, 3>>

\* After scenario S5 the iterator has walked the leaf chain and read 4, 5, 6.
C36_ScannedAfterS5 ==
  AfterS5 /\ last.op = "Scan" /\ last.out = <<4, 5, 6>>

\* C36 as stated: after scenario S5 a leaf has been coalesced, the tree is
\* lower than it was after the six inserts, and the leaf chain holds exactly
\* 4, 5, 6.
C36_ScenarioS5 ==
  AfterS5 => /\ load.merged
             /\ Height(pages, root_page_id_) < load.high
             /\ ChainKeys = <<4, 5, 6>>
             /\ (last.op = "Scan" => last.out = <<4, 5, 6>>)

\* C36 amended: after scenario S5 a leaf has been coalesced, the tree has
\* the two levels it had after the six inserts (an internal root over the
\* leaves [4] and [5, 6]), and the leaf chain holds exactly 4, 5, 6.
C36_ScenarioS5SameHeight ==
  AfterS5 => /\ load.merged
             /\ Height(pages, root_page_id_) = load.high
             /\ load.high = 2
             /\ ~IsLeafPage(pages[root_page_id_])
             /\ GetSize(pages[root_page_id_]) = 2
             /\ ChainKeys = <<4, 5, 6>>
             /\ (last.op = "Scan" => last.out = <<4, 5, 6>>)
\* The table of bucket_size 1 is as constructed but for the pair of key 0,
\* which the last call inserted: no bucket was ever split.
AfterInsertOfZero ==
  /\ table_status = "ok" /\ bucket_size_ = 1
  /\ global_depth_ = 0 /\ num_buckets_ = 1
  /\ table_last.op = "Insert" /\ table_last.key = 0
  /\ DOMAIN table_map = {0}

\* Scenario S2 has been run: the Insert of key 4 split three times.
C31_AfterS2 ==
  /\ table_status = "ok" /\ bucket_size_ = 1
  /\ table_last.op = "Insert" /\ table_last.key = 4 /\ table_last.splits = 3
  /\ DOMAIN table_map = {0, 4}
  /\ global_depth_ = 3

\* C31 as stated: with bucket_size 1, Insert of key 4 into the fresh table
\* that holds key 0 ends with global_depth 3 and num_buckets 3.
C31_ScenarioS2 ==
  [][(AfterInsertOfZero /\ table_last'.op = "Insert" /\ table_last'.key = 4)
      => /\ table_status' = "ok"
         /\ global_depth_' = 3
         /\ num_buckets_' = 3]_vars

\* C31 amended: it ends with global_depth 3 and num_buckets 4, the number
\* of bucket objects the eight slots of the directory point to.
C31_ScenarioS2FourBuckets ==
  [][(AfterInsertOfZero /\ table_last'.op = "Insert" /\ table_last'.key = 4)
      => /\ table_status' = "ok"
         /\ global_depth_' = 3
         /\ num_buckets_' = 4
         /\ Cardinality({dir_[i] : i \in DOMAIN dir_})' = 4
         /\ Cardinality(DOMAIN dir_)' = 8]_vars

\* C37: every Insert returns with the pair stored after at most
\* MaxGlobalDepth turns of the split loop, and the loop makes no turn when
\* the key's bucket has room at the call.
C37_InsertTerminates ==
  [][\A k \in TableKeys :
       (table_status = "ok" /\ table_last'.op = "Insert" /\ table_last'.key = k)
       => /\ table_status' = "ok"
          /\ <<k, table_last'.value>> \in TablePairs'
          /\ table_last'.splits <= MaxGlobalDepth
          /\ ~IsFull(Table, buckets[dir_[IndexOf(Table, k)]])
               => table_last'.splits = 0]_vars

\* C38: an Insert of a key that the table holds changes nothing but the
\* value in the key's entry: directory, global_depth, num_buckets, every
\* bucket's depth and every other entry stay.
C38_UpsertFrame ==
  [][\A k \in TableKeys :
       (table_status = "ok" /\ table_last'.op = "Insert" /\ table_last'.key = k
          /\ TableFind(Table, k).ret)
       => /\ dir_' = dir_
          /\ global_depth_' = global_depth_
          /\ num_buckets_' = num_buckets_
          /\ buckets' = [buckets EXCEPT ![dir_[IndexOf(Table, k)]].list_[
                            PositionOf(buckets[dir_[IndexOf(Table, k)]].list_, k, 1)] =
                            <<k, table_last'.value>>]]_vars
\* A thread has called Find and waits for the mutex while another thread's
\* Insert is between global_depth_++ and the resize of the directory.
C32_WaitingDuringDoubling ==
  \E a, b \in Threads :
    /\ threads[a].pc = "deepened" /\ latch_ = a
    /\ threads[b].pc = "called" /\ threads[b].op = "Find"
    /\ MidDoubling

\* C32: a thread is inside a method's body only while it holds the mutex
\* and holds it nowhere else; a call that has returned gave the result and
\* left the table that the same call gives when run alone on the table it
\* found when it took the mutex (so the calls are as if run one after the
\* other in the order they took it); the directory is in the middle of a
\* doubling only while the doubling thread holds the mutex, and no call
\* read it then.
C32_Serialized ==
  /\ \A th \in Threads :
       /\ threads[th].pc \in {"body", "deepened", "doubled"} <=> latch_ = th
       /\ threads[th].pc = "done" =>
            /\ ~threads[th].torn /\ threads[th].same
            /\ threads[th].ret = threads[th].want[1].ret
            /\ threads[th].out = threads[th].want[1].out
  /\ (MidDoubling /\ table_status = "ok") =>
       (latch_ # 0 /\ threads[latch_].pc = "deepened")
  /\ table_status # "ok" =>
       \E th \in Threads : threads[th].pc = "thrown" /\ Table = threads[th].want[1].t

\* C40: no thread of GetValue, Insert or Remove waits for ever on a page
\* latch or on the root-pointer guard, and under fair scheduling every
\* started call returns; here for the GetValue of the second thread beside
\* the Insert and Remove calls of the first.
C40_StartedCallsReturn ==
  /\ [](status # "deadlock")
  /\ (rd.pc = "called" /\ rd.op = "GetValue") ~> (rd.pc = "done" \/ WriterStopped)

====
